---- MODULE Spec2Model ----
(***************************************************************************)
(* Model of the UniversalRAG ingestion core: article-number normalizer,    *)
(* article segmenter, span-to-page mapper, Neo4j loaders and the doc_id /  *)
(* title reconciler.                                                       *)
(*                                                                         *)
(* Text is modelled as a sequence of characters; a character is a TLA+     *)
(* string.  The Unicode superscript digits are written "sup0" .. "sup9",   *)
(* the newline is "\n".  Python's None is the value None below.            *)
(***************************************************************************)
EXTENDS Integers, Sequences, FiniteSets, TLC

VARIABLES
    n_form,       \* normalizer harness: the shape the raw string was drawn from
    n_raw,        \* normalizer harness: the raw article number
    n_tail_max,   \* normalizer harness: the tail_max argument
    n_res,        \* normalizer harness: normalize_article_number(raw)
    n_res2,       \* normalizer harness: normalize_article_number(n_res[1])
    n_pc,         \* normalizer harness: "in" | "once" | "twice" | "off"
    s_pages,      \* segmenter harness: the page texts of the PDF
    s_segments,   \* segmenter harness: find_articles_segments(full_text)
    s_records,    \* segmenter harness: the records process_pdf emits
    s_pc,         \* segmenter harness: "pdf" | "segmented" | "emitted" | "off"
    p_offsets,    \* page mapper harness: page_offsets
    p_span,       \* page mapper harness: <<start_idx, end_idx>>
    p_range,      \* page mapper harness: span_to_page_range(...)
    p_pc,         \* page mapper harness: "in" | "out" | "off"
    t_page,       \* title harness: page 1 (its lines in reading order, how many lie in the upper half)
    t_title,      \* title harness: guess_doc_title_from_first_page(page)
    t_pc,         \* title harness: "page" | "done" | "off"
    d_text,       \* doc id harness: the text of page 1 and the stem of the file name
    d_doc_id,     \* doc id harness: the doc_id process_pdf settles on
    d_pc,         \* doc id harness: "text" | "done" | "off"
    pdfs,         \* source files: pdf_path -> what page 1 and the headings yield
    jsonl,        \* out/articles.jsonl: the records pdf2articles wrote last
    articles,     \* (:Article) nodes, in creation order (the index is id(a))
    documents,    \* (:Document) nodes: doc_id -> title (None when not set)
    edges,        \* (:Document)-[:HAS_ARTICLE]->(:Article): <<doc_id, id(a)>>
    r_pc,         \* reconciler run: "idle" | "running"
    r_commit,     \* reconciler run: --commit given
    r_groups,     \* reconciler run: the groups of CYPHER_LIST_PDFS still to process
    r_stats,      \* reconciler run: total / fixed / skipped
    r_report,     \* reconciler run: what the last turn of the loop printed
    counters,     \* what the last step of the reconciler wrote (query summary)
    loaded,       \* history: jsonl was loaded, no source file changed since
    settled,      \* history: a commit run completed, nothing written or changed since
    srv,          \* chat app: the attributes of the shared _pdf_server
    srv_servers,  \* chat app: the TCPServer objects created so far, in creation order
    srv_threads,  \* chat app: how many serving threads were started so far
    srv_call,     \* chat app: per session, where its call of respond stands
    srv_state,    \* chat app: per session, pdf_server_started and pdf_server_info
    srv_first     \* history: the arguments of the first start that returned a server

normVars == <<n_form, n_raw, n_tail_max, n_res, n_res2, n_pc>>

segVars == <<s_pages, s_segments, s_records, s_pc>>

pageVars == <<p_offsets, p_span, p_range, p_pc>>

firstPageVars == <<t_page, t_title, t_pc, d_text, d_doc_id, d_pc>>

storeVars == <<pdfs, jsonl, articles, documents, edges, r_pc, r_commit, r_groups,
               r_stats, r_report, counters, loaded, settled>>

serverVars == <<srv, srv_servers, srv_threads, srv_call, srv_state, srv_first>>

vars == <<normVars, segVars, pageVars, firstPageVars, storeVars, serverVars>>

ZeroCounters ==
    [relationships_deleted |-> 0, relationships_created |-> 0,
     nodes_created |-> 0, nodes_deleted |-> 0]

ZeroStats == [total |-> 0, fixed |-> 0, skipped |-> 0]

NoReport == [kind |-> "none", pdf_path |-> "null", new_doc_id |-> "null", doc_title |-> <<>>]

StoreIdle ==
    /\ pdfs = <<>>
    /\ jsonl = <<>>
    /\ articles = <<>>
    /\ documents = <<>>
    /\ edges = {}
    /\ r_pc = "off"
    /\ r_commit = FALSE
    /\ r_groups = <<>>
    /\ r_stats = ZeroStats
    /\ r_report = NoReport
    /\ counters = ZeroCounters
    /\ loaded = FALSE
    /\ settled = FALSE

ServerIdle ==
    /\ srv = <<>>
    /\ srv_servers = <<>>
    /\ srv_threads = 0
    /\ srv_call = <<>>
    /\ srv_state = <<>>
    /\ srv_first = <<>>

NormIdle ==
    /\ n_form = [kind |-> "off"]
    /\ n_raw = <<>>
    /\ n_tail_max = 0
    /\ n_res = <<>>
    /\ n_res2 = <<>>
    /\ n_pc = "off"

SegIdle ==
    /\ s_pages = <<>>
    /\ s_segments = <<>>
    /\ s_records = <<>>
    /\ s_pc = "off"

TitleIdle ==
    /\ t_page = [lines |-> <<>>, upper |-> 0]
    /\ t_title = <<>>
    /\ t_pc = "off"

DocIdIdle ==
    /\ d_text = [first_page_text |-> <<>>, stem |-> <<>>]
    /\ d_doc_id = <<>>
    /\ d_pc = "off"

PageIdle ==
    /\ p_offsets = <<>>
    /\ p_span = <<0, 0>>
    /\ p_range = <<0, 0>>
    /\ p_pc = "off"

(***************************************************************************)
(* Bounds of the model.                                                    *)
(***************************************************************************)
MaxRest == 4        \* length of the free-form remainder after the prefix
MaxTailMax == 2     \* largest tail_max argument tried
MaxDocTokens == 5   \* tokens (words, line ends, page ends) of a generated PDF
MaxPageCount == 3   \* pages handed to the page mapper
MaxOffset == 3      \* largest character offset handed to the page mapper
MaxArticles == 2    \* Article nodes the store may hold

(***************************************************************************)
(* Characters and generic string helpers.                                  *)
(***************************************************************************)
None == <<"None">>

Digits == {"0", "1", "2", "3", "4", "5", "6", "7", "8", "9"}

UpperSeq == <<"A","B","C","D","E","F","G","H","I","J","K","L","M",
              "N","O","P","Q","R","S","T","U","V","W","X","Y","Z">>

LowerSeq == <<"a","b","c","d","e","f","g","h","i","j","k","l","m",
              "n","o","p","q","r","s","t","u","v","w","x","y","z">>

Uppers == {UpperSeq[i] : i \in 1..26}

Lowers == {LowerSeq[i] : i \in 1..26}

Letters == Uppers \cup Lowers

Whitespace == {" ", "\n", "\t"}

lower(c) == IF c \in Uppers THEN LowerSeq[CHOOSE i \in 1..26 : UpperSeq[i] = c] ELSE c

upper(c) == IF c \in Lowers THEN UpperSeq[CHOOSE i \in 1..26 : LowerSeq[i] = c] ELSE c

MapSeq(Op(_), s) == [i \in 1..Len(s) |-> Op(s[i])]

Lower(s) == MapSeq(lower, s)

Upper(s) == MapSeq(upper, s)

AllIn(s, S) == \A i \in 1..Len(s) : s[i] \in S

Drop(s, k) == SubSeq(s, k + 1, Len(s))

Take(s, k) == SubSeq(s, 1, k)

\* number of leading characters of s that lie in S
RECURSIVE SpanOf(_, _)
SpanOf(s, S) == IF s # <<>> /\ Head(s) \in S THEN 1 + SpanOf(Tail(s), S) ELSE 0

\* number of trailing characters of s that lie in S
RECURSIVE SpanOfEnd(_, _)
SpanOfEnd(s, S) ==
    IF s # <<>> /\ s[Len(s)] \in S THEN 1 + SpanOfEnd(Take(s, Len(s) - 1), S) ELSE 0

\* str.strip()
Strip(s) == SubSeq(s, SpanOf(s, Whitespace) + 1, Len(s) - SpanOfEnd(s, Whitespace))

\* re.sub(r"\s+", " ", s)
RECURSIVE CollapseWs(_)
CollapseWs(s) ==
    IF s = <<>> THEN <<>>
    ELSE IF Head(s) \in Whitespace
         THEN <<" ">> \o CollapseWs(Drop(s, SpanOf(s, Whitespace)))
         ELSE <<Head(s)>> \o CollapseWs(Tail(s))

\* s.replace(" ", "")
RemoveSpaces(s) == SelectSeq(s, LAMBDA c : c # " ")

\* all sequences over S of length at most n
RECURSIVE SeqsUpTo(_, _)
SeqsUpTo(S, n) ==
    IF n = 0 THEN {<<>>}
    ELSE LET shorter == SeqsUpTo(S, n - 1)
         IN shorter \cup {Append(s, c) : s \in {t \in shorter : Len(t) = n - 1}, c \in S}

(***************************************************************************)
(* neo4j_fix_superscripts.py: the article-number normalizer.               *)
(***************************************************************************)
SupSeq == <<"sup0","sup1","sup2","sup3","sup4","sup5","sup6","sup7","sup8","sup9">>

DigitSeq == <<"0","1","2","3","4","5","6","7","8","9">>

Sups == {SupSeq[i] : i \in 1..10}

\* s.translate(_SUP_MAP), one character
sup_map(c) == IF c \in Sups THEN DigitSeq[CHOOSE i \in 1..10 : SupSeq[i] = c] ELSE c

translate_sup(s) == MapSeq(sup_map, s)

RomanLetters == {"I", "V", "X", "L", "C", "D", "M"}

\* one group (nine|four|five?one{0,3}) of _ROMAN_RE taken off the front of s
StripRomanGroup(s, one, five, ten) ==
    IF Len(s) >= 2 /\ Take(s, 2) = <<one, ten>> THEN Drop(s, 2)
    ELSE IF Len(s) >= 2 /\ Take(s, 2) = <<one, five>> THEN Drop(s, 2)
    ELSE LET r == IF s # <<>> /\ Head(s) = five THEN Tail(s) ELSE s
             k == SpanOf(r, {one})
         IN Drop(r, IF k > 3 THEN 3 ELSE k)

\* how many letters the lookahead of _ROMAN_RE admits
RomanMaxLen == 8

\* _ROMAN_RE.match(tok)
is_roman(tok) ==
    LET u == Upper(tok)
        k == SpanOf(u, {"M"})
        afterM == Drop(u, IF k > 4 THEN 4 ELSE k)
        afterC == StripRomanGroup(afterM, "C", "D", "M")
        afterX == StripRomanGroup(afterC, "X", "L", "C")
        afterI == StripRomanGroup(afterX, "I", "V", "X")
    IN /\ Len(tok) >= 1
       /\ Len(tok) <= RomanMaxLen
       /\ AllIn(u, RomanLetters)
       /\ afterI = <<>>

\* _tidy_prefix
tidy_prefix == <<"A", "r", "t", ".">>

\* str(int(num)): the decimal digits without leading zeros
RECURSIVE IntStr(_)
IntStr(num) == IF Len(num) > 1 /\ Head(num) = "0" THEN IntStr(Tail(num)) ELSE num

\* re.fullmatch(r"\d{1,tail_max}", t)
IsTail(t, tail_max) == Len(t) >= 1 /\ Len(t) <= tail_max /\ AllIn(t, Digits)

\* re.fullmatch(r"\d{1,3}", t)
IsNum(t) == Len(t) >= 1 /\ Len(t) <= 3 /\ AllIn(t, Digits)

\* re.match(r"(?is)^\s*(art\.?)\s*(.*)$", s): the rest group, or None
match_art(s) ==
    LET t == Drop(s, SpanOf(s, Whitespace))
    IN IF Len(t) >= 3 /\ Lower(Take(t, 3)) = <<"a", "r", "t">>
       THEN LET u == Drop(t, 3)
                v == IF u # <<>> /\ Head(u) = "." THEN Tail(u) ELSE u
            IN Drop(v, SpanOf(v, Whitespace))
       ELSE None

\* m_ar as it would be with a lazy num group \d{1,3}?
m_ar_lazy(rc, tail_max) ==
    LET after(n) == LET r == Drop(rc, n)
                    IN IF r # <<>> /\ Head(r) \in Letters THEN Tail(r) ELSE r
        ok(n) == /\ n <= Len(rc)
                 /\ AllIn(Take(rc, n), Digits)
                 /\ (after(n) = <<>> \/ IsTail(after(n), tail_max))
        cands == {n \in 1..3 : ok(n)}
    IN IF cands = {} THEN [ok |-> FALSE]
       ELSE LET n == CHOOSE x \in cands : \A y \in cands : x <= y
                r == Drop(rc, n)
            IN [ok |-> TRUE,
                num |-> Take(rc, n),
                letter |-> IF r # <<>> /\ Head(r) \in Letters THEN <<Head(r)>> ELSE <<>>,
                tail |-> IF after(n) = <<>> THEN None ELSE after(n)]

\* ^(?P<num>\d{1,3})(?P<letter>[A-Za-z])?(?P<tail>\d{1,tail_max})?$  : greedy num
m_ar(rc, tail_max) ==
    LET after(n) == LET r == Drop(rc, n)
                    IN IF r # <<>> /\ Head(r) \in Letters THEN Tail(r) ELSE r
        ok(n) == /\ n <= Len(rc)
                 /\ AllIn(Take(rc, n), Digits)
                 /\ (after(n) = <<>> \/ IsTail(after(n), tail_max))
        cands == {n \in 1..3 : ok(n)}
    IN IF cands = {} THEN [ok |-> FALSE]
       ELSE LET n == CHOOSE x \in cands : \A y \in cands : y <= x
                r == Drop(rc, n)
            IN [ok |-> TRUE,
                num |-> Take(rc, n),
                letter |-> IF r # <<>> /\ Head(r) \in Letters THEN <<Head(r)>> ELSE <<>>,
                tail |-> IF after(n) = <<>> THEN None ELSE after(n)]

\* ^(?P<roman>[IVXLCDMivxlcdm]{1,8})(?P<tail>\d{1,tail_max})?$
m_ro(rc, tail_max) ==
    LET k == SpanOf(Upper(rc), RomanLetters)
        r == Drop(rc, k)
    IN IF k >= 1 /\ k <= RomanMaxLen /\ (r = <<>> \/ IsTail(r, tail_max))
       THEN [ok |-> TRUE, roman |-> Take(rc, k), tail |-> IF r = <<>> THEN None ELSE r]
       ELSE [ok |-> FALSE]

AlNum == Digits \cup Letters

\* re.findall(r"[A-Za-z0-9]+", s)
RECURSIVE findall_tokens(_)
findall_tokens(s) ==
    IF s = <<>> THEN <<>>
    ELSE IF Head(s) \in AlNum
         THEN LET k == SpanOf(s, AlNum)
              IN <<Take(s, k)>> \o findall_tokens(Drop(s, k))
         ELSE findall_tokens(Tail(s))

\* the token fallback of normalize_article_number (a pair), or None
token_case(prefix, toks, tail_max) ==
    IF toks = <<>> THEN None
    ELSE IF IsNum(toks[1])
    THEN LET num == IntStr(toks[1])
             hasLetter == Len(toks) >= 2 /\ Len(toks[2]) = 1 /\ toks[2][1] \in Letters
             letter == IF hasLetter THEN Lower(toks[2]) ELSE <<>>
             tail == IF hasLetter
                     THEN IF Len(toks) >= 3 /\ IsTail(toks[3], tail_max) THEN toks[3] ELSE None
                     ELSE IF Len(toks) >= 2 /\ IsTail(toks[2], tail_max) THEN toks[2] ELSE None
         IN <<prefix \o <<" ">> \o num \o letter, tail>>
    ELSE IF is_roman(toks[1])
    THEN <<prefix \o <<" ">> \o Upper(toks[1]),
           IF Len(toks) >= 2 /\ IsTail(toks[2], tail_max) THEN toks[2] ELSE None>>
    ELSE None

\* what a call yields when re.match cannot compile its pattern: the exception re.error
re_error == <<"re.error">>

\* tail_pat is \d{1,tail_max}: with tail_max = 0 the minimum of the repeat is greater
\* than its maximum and the pattern does not compile
tail_pat_compiles(tail_max) == tail_max # 0

normalize_article_number(raw, tail_max) ==
    IF raw = <<>> THEN <<<<>>, None>>
    ELSE
    LET s == translate_sup(CollapseWs(Strip(raw)))
        rest == match_art(s)
    IN IF rest = None THEN <<s, None>>
       ELSE IF ~tail_pat_compiles(tail_max) THEN re_error
       ELSE
       LET prefix == tidy_prefix
           rest_compact == RemoveSpaces(rest)
           ar == m_ar(rest_compact, tail_max)
           ro == m_ro(rest_compact, tail_max)
           tk == token_case(prefix, findall_tokens(translate_sup(rest)), tail_max)
       IN IF ar.ok
          THEN <<prefix \o <<" ">> \o IntStr(ar.num) \o Lower(ar.letter), ar.tail>>
          ELSE IF ro.ok /\ is_roman(ro.roman)
          THEN <<prefix \o <<" ">> \o Upper(ro.roman), ro.tail>>
          ELSE IF tk # None THEN tk
          ELSE <<prefix \o <<" ">> \o Strip(rest), None>>

(***************************************************************************)
(* pdf2articles.py: page assembly, article segmentation, span-to-page      *)
(* mapping.  Offsets are Python's: 0-based, a span is [start, end).        *)
(***************************************************************************)

\* the character at 0-based offset i
At(text, i) == text[i + 1]

\* text[a:b]
Slice(text, a, b) == SubSeq(text, a + 1, b)

\* f"\n<<<PAGE_BREAK_{i}>>>\n" for a page number i below 10
PageBreak(i) ==
    <<"\n", "<", "<", "<", "P", "A", "G", "E", "_", "B", "R", "E", "A", "K", "_",
      DigitSeq[i + 1], ">", ">", ">", "\n">>

\* load_pdf_text_with_pages: full_text and page_offsets of the page texts
RECURSIVE load_pages(_, _, _, _)
load_pages(page_texts, i, full_text, page_offsets) ==
    IF i > Len(page_texts) THEN [full_text |-> full_text, page_offsets |-> page_offsets]
    ELSE load_pages(page_texts, i + 1,
                    full_text \o page_texts[i] \o PageBreak(i),
                    Append(page_offsets, Len(full_text)))

load_pdf_text_with_pages(page_texts) == load_pages(page_texts, 1, <<>>, <<>>)

\* offset after the run of whitespace that starts at offset i
SkipWs(text, i) == i + SpanOf(Drop(text, i), Whitespace)

\* ART_HEADING_RE tried at offset p: [ok, num (group 1), end], greedy with backtracking
\*   ^\s*Art\.\s*(\d+[a-zA-Z]?)\s*$   (IGNORECASE | MULTILINE)
\* The match is followed part by part, each operator taking the offsets reached so far.
NoMatch == [ok |-> FALSE]

\* \s*$ from offset q4, group 1 being text[q2:q4]; ends are the offsets where $ holds
heading_match(text, q2, q4, ends) ==
    IF ends # {}
    THEN [ok |-> TRUE, num |-> Slice(text, q2, q4),
          end |-> CHOOSE e \in ends : \A f \in ends : f <= e]
    ELSE NoMatch

heading_end(text, q2, q4) ==
    heading_match(text, q2, q4,
                  {e \in q4..SkipWs(text, q4) : e = Len(text) \/ At(text, e) = "\n"})

\* [a-zA-Z]? after the digits text[q2:q3]
heading_letter(text, q2, q3) ==
    IF q3 > q2
    THEN heading_end(text, q2, IF q3 < Len(text) /\ At(text, q3) \in Letters THEN q3 + 1 ELSE q3)
    ELSE NoMatch

\* \d+ from offset q2
heading_num(text, q2) == heading_letter(text, q2, q2 + SpanOf(Drop(text, q2), Digits))

\* Art\.\s* from offset q1
heading_art(text, q1) ==
    IF /\ q1 + 4 <= Len(text)
       /\ Lower(Slice(text, q1, q1 + 3)) = <<"a", "r", "t">>
       /\ At(text, q1 + 3) = "."
    THEN heading_num(text, SkipWs(text, q1 + 4))
    ELSE NoMatch

\* ^\s* at offset p
heading_at(text, p) ==
    IF p = 0 \/ At(text, p - 1) = "\n" THEN heading_art(text, SkipWs(text, p)) ELSE NoMatch

\* ART_HEADING_RE.finditer(full_text) from offset pos on: [num, start, end] per match
RECURSIVE finditer(_, _)
finditer_next(text, p, m) ==
    <<[num |-> m.num, start |-> p, end |-> m.end]>> \o finditer(text, m.end)

finditer_first(text, starts) ==
    IF starts = {} THEN <<>>
    ELSE finditer_next(text, CHOOSE x \in starts : \A y \in starts : x <= y,
                       heading_at(text, CHOOSE x \in starts : \A y \in starts : x <= y))

finditer(text, pos) == finditer_first(text, {p \in pos..Len(text) : heading_at(text, p).ok})

\* the spans of the matches when a segment ends where its heading ends
heading_spans(matches, n) ==
    [idx \in 1..Len(matches) |->
        [art_num |-> matches[idx].num,
         start |-> matches[idx].start,
         end |-> matches[idx].end]]

\* the loop of find_articles_segments if every segment ran to the end of the text
segments_of_to_end(matches, n) ==
    [idx \in 1..Len(matches) |->
        [art_num |-> matches[idx].num,
         start |-> matches[idx].start,
         end |-> n]]

\* the loop of find_articles_segments over the matches, n being len(full_text)
segments_of(matches, n) ==
    [idx \in 1..Len(matches) |->
        [art_num |-> matches[idx].num,
         start |-> matches[idx].start,
         end |-> IF idx + 1 <= Len(matches) THEN matches[idx + 1].start ELSE n]]

\* find_articles_segments as it would be if a segment ended where its heading ends
find_articles_segments_heading_only(full_text) ==
    heading_spans(finditer(full_text, 0), Len(full_text))

\* (art_num, start_idx, end_idx_excl) per heading
find_articles_segments(full_text) ==
    segments_of(finditer(full_text, 0), Len(full_text))

\* pos_to_page: scan the offsets in order, stop at the first one beyond pos
RECURSIVE pos_scan(_, _, _, _)
pos_scan(pos, page_offsets, i, p) ==
    IF i > Len(page_offsets) THEN p
    ELSE IF page_offsets[i] <= pos THEN pos_scan(pos, page_offsets, i + 1, i - 1)
    ELSE p

pos_to_page(pos, page_offsets) == pos_scan(pos, page_offsets, 1, 0) + 1

\* span_to_page_range taking the page of end_idx, not of end_idx - 1
span_to_page_range_end_inclusive(start_idx, end_idx, page_offsets) ==
    << pos_to_page(start_idx, page_offsets), pos_to_page(end_idx, page_offsets) >>

span_to_page_range(start_idx, end_idx, page_offsets) ==
    << pos_to_page(start_idx, page_offsets),
       pos_to_page(IF end_idx > 0 THEN end_idx - 1 ELSE 0, page_offsets) >>

\* "if not segments": one article "1" over the whole text, n being len(full_text)
fallback_if_empty(segments, n) ==
    IF segments = <<>> THEN <<[art_num |-> <<"1">>, start |-> 0, end |-> n]>> ELSE segments

\* segments_or_fallback as it would be without the "if not segments" branch
segments_without_fallback(full_text) == find_articles_segments(full_text)

\* the segments process_pdf iterates over: those found, or one "1" over the whole text
segments_or_fallback(full_text) ==
    fallback_if_empty(find_articles_segments(full_text), Len(full_text))

\* the record process_pdf yields for a segment, with the span it comes from
record_of(seg, page_range) ==
    [article_number |-> <<"A", "r", "t", ".", " ">> \o seg.art_num,
     start |-> seg.start,
     end |-> seg.end,
     page_start |-> page_range[1],
     page_end |-> page_range[2]]

\* the loop of process_pdf over the segments
records_of(segments, page_offsets) ==
    [k \in 1..Len(segments) |->
        record_of(segments[k],
                  span_to_page_range(segments[k].start, segments[k].end, page_offsets))]

process_pdf_text(pdf_text) ==
    records_of(segments_or_fallback(pdf_text.full_text), pdf_text.page_offsets)

\* process_pdf: the records emitted for a document
process_pdf(page_texts) == process_pdf_text(load_pdf_text_with_pages(page_texts))

(***************************************************************************)
(* pdf2articles.py / neo4j_fix_docids_titles.py: the title detector and    *)
(* the document id of page 1.  "fi_lig" is the ligature U+FB01, "eacute"   *)
(* the letter U+00E9, "acute_comb" the combining accent U+0301 and "shy"   *)
(* the soft hyphen U+00AD.                                                 *)
(***************************************************************************)
\* unicodedata.normalize("NFKD", c) without the combining characters
nfkd_fold(c) ==
    IF c = "fi_lig" THEN <<"f", "i">>
    ELSE IF c = "eacute" THEN <<"e">>
    ELSE IF c = "acute_comb" THEN <<>>
    ELSE <<c>>

\* _norm
RECURSIVE norm(_)
norm(s) == IF s = <<>> THEN <<>> ELSE nfkd_fold(Head(s)) \o norm(Tail(s))

\* \w on an accent-folded text
WordChars == Letters \cup Digits \cup {"_"}

\* text[a:b] with Python's clamping of the bounds
PySlice(text, a, b) ==
    SubSeq(text, (IF a < Len(text) THEN a ELSE Len(text)) + 1, IF b < Len(text) THEN b ELSE Len(text))

\* whether the letters of word (lower case) stand at offset p of text, any case
WordAt(text, p, word) ==
    /\ p + Len(word) <= Len(text)
    /\ Lower(SubSeq(text, p + 1, p + Len(word))) = word

TexteWord == <<"t", "e", "x", "t", "e">>

OriginalWord == <<"o", "r", "i", "g", "i", "n", "a", "l">>

ConcluWord == <<"c", "o", "n", "c", "l", "u">>

NoSearchMatch == [ok |-> FALSE, start |-> 0, end |-> 0]

\* texte\s+original at offset p, k being the length of the whitespace run after "texte"
start_pat_ws(text, p, k) ==
    IF k >= 1 /\ WordAt(text, p + 5 + k, OriginalWord)
    THEN [ok |-> TRUE, start |-> p, end |-> p + 5 + k + 8]
    ELSE NoSearchMatch

start_pat_at(text, p) ==
    IF WordAt(text, p, TexteWord)
    THEN start_pat_ws(text, p, SpanOf(Drop(text, p + 5), Whitespace))
    ELSE NoSearchMatch

\* the leftmost of the offsets in starts, matched by start_pat
start_pat_first(text, starts) ==
    IF starts = {} THEN NoSearchMatch
    ELSE start_pat_at(text, CHOOSE x \in starts : \A y \in starts : x <= y)

\* start_pat.search(text)
start_pat_search(text) ==
    start_pat_first(text, {p \in 0..Len(text) : start_pat_at(text, p).ok})

\* \b at offset p of text
WordBoundary(text, p) ==
    (p > 0 /\ text[p] \in WordChars) # (p < Len(text) /\ text[p + 1] \in WordChars)

\* \bconclu(e)?\b at offset p, e being the offset after the optional "e"
end_pat_e(text, p, e) ==
    IF WordBoundary(text, e) THEN [ok |-> TRUE, start |-> p, end |-> e] ELSE NoSearchMatch

end_pat_at(text, p) ==
    IF WordBoundary(text, p) /\ WordAt(text, p, ConcluWord)
    THEN end_pat_e(text, p, IF WordAt(text, p + 6, <<"e">>) THEN p + 7 ELSE p + 6)
    ELSE NoSearchMatch

end_pat_first(text, starts) ==
    IF starts = {} THEN NoSearchMatch
    ELSE end_pat_at(text, CHOOSE x \in starts : \A y \in starts : x <= y)

\* end_pat.search(text, pos)
end_pat_search(text, pos) ==
    end_pat_first(text, {p \in pos..Len(text) : end_pat_at(text, p).ok})

\* str.splitlines()
RECURSIVE splitlines(_)
splitlines_at(s, k) ==
    IF k = Len(s) THEN <<s>>
    ELSE <<Take(s, k)>> \o splitlines(Drop(s, k + 1))

splitlines(s) ==
    IF s = <<>> THEN <<>> ELSE splitlines_at(s, SpanOf(s, {s[i] : i \in 1..Len(s)} \ {"\n"}))

\* [line.strip() for line in lines if line.strip()]
RECURSIVE stripped_lines(_)
stripped_line(t, rest) == IF t = <<>> THEN rest ELSE <<t>> \o rest

stripped_lines(lines) ==
    IF lines = <<>> THEN <<>>
    ELSE stripped_line(Strip(Head(lines)), stripped_lines(Tail(lines)))

\* "\n".join(lines)
RECURSIVE join_lines(_)
join_lines(lines) ==
    IF lines = <<>> THEN <<>>
    ELSE IF Len(lines) = 1 THEN lines[1]
    ELSE lines[1] \o <<"\n">> \o join_lines(Tail(lines))

\* re.sub(r"\s*-\s+", "-", s)
RECURSIVE dash_sub(_)
dash_sub_ws(s, k, j) ==
    IF j >= 1 THEN <<"-">> \o dash_sub(Drop(s, k + 1 + j))
    ELSE <<Head(s)>> \o dash_sub(Tail(s))

dash_sub_at(s, k) ==
    IF k < Len(s) /\ s[k + 1] = "-"
    THEN dash_sub_ws(s, k, SpanOf(Drop(s, k + 1), Whitespace))
    ELSE <<Head(s)>> \o dash_sub(Tail(s))

dash_sub(s) == IF s = <<>> THEN <<>> ELSE dash_sub_at(s, SpanOf(s, Whitespace))

\* step 3 of the detector ("Nettoyage") applied to a segment
clean_segment(segment) ==
    dash_sub(SelectSeq(Strip(CollapseWs(join_lines(stripped_lines(splitlines(segment))))),
                       LAMBDA c : c # "shy"))

\* the segment the two matches cut out of text; None when the markers do not delimit one
segment_between(text, m_start, m_end) ==
    IF m_start.ok /\ m_end.ok /\ m_end.start > m_start.end
    THEN PySlice(text, m_start.end, m_end.start)
    ELSE IF ~m_start.ok /\ m_end.ok
    THEN PySlice(text, 0, m_end.start)
    ELSE None

\* the two searches on the accent-folded text, the offsets applied to text itself
segment_from(text, folded, m_start) ==
    segment_between(text, m_start, end_pat_search(folded, IF m_start.ok THEN m_start.end ELSE 0))

marker_segment_folded(text, folded) == segment_from(text, folded, start_pat_search(folded))

marker_segment(text) == marker_segment_folded(text, norm(text))

\* DOC_ID_LINE.match(t) for a stripped line t
doc_id_groups(t, a, b) ==
    /\ a \in 1..3
    /\ a < Len(t) /\ t[a + 1] = "."
    /\ b \in 1..3
    /\ a + 1 + b < Len(t) /\ t[a + b + 2] = "."
    /\ Len(t) - (a + b + 2) \in 1..3
    /\ AllIn(Drop(t, a + b + 2), Digits)

DOC_ID_LINE(t) ==
    doc_id_groups(t, SpanOf(t, Digits), SpanOf(Drop(t, SpanOf(t, Digits) + 1), Digits))

TexteOriginal == TexteWord \o <<" ">> \o OriginalWord

TitreInconnu == <<"T", "i", "t", "r", "e", " ", "i", "n", "c", "o", "n", "n", "u">>

\* the first non-empty line, bare document ids and the start marker not set aside
first_nonempty_line(lines) == IF lines = <<>> THEN TitreInconnu ELSE Head(lines)

\* the loop of _title_between_markers_fallback over the stripped lines of the raw text
RECURSIVE first_qualifying_line(_)
first_qualifying_line(lines) ==
    IF lines = <<>> THEN TitreInconnu
    ELSE IF ~DOC_ID_LINE(Head(lines)) /\ ~WordAt(Head(lines), 0, TexteOriginal)
    THEN Head(lines)
    ELSE first_qualifying_line(Tail(lines))

title_or_line(seg, raw_page_text) ==
    IF seg # <<>> THEN seg ELSE first_qualifying_line(stripped_lines(splitlines(raw_page_text)))

segment_or_empty(segment) == IF segment = None THEN <<>> ELSE segment

_title_between_markers_fallback(raw_page_text) ==
    title_or_line(clean_segment(segment_or_empty(marker_segment(raw_page_text))), raw_page_text)

\* page.get_text(): every line of the page, in reading order
RECURSIVE page_get_text(_)
page_get_text(lines) ==
    IF lines = <<>> THEN <<>> ELSE Head(lines) \o <<"\n">> \o page_get_text(Tail(lines))

\* the stripped non-empty lines whose middle lies in the upper half, joined
top_text_of(page) == join_lines(stripped_lines(Take(page.lines, page.upper)))

title_of_clean(seg, page) ==
    IF seg # <<>> THEN seg ELSE _title_between_markers_fallback(page_get_text(page.lines))

title_of_segment(segment, page) ==
    IF segment = None THEN _title_between_markers_fallback(page_get_text(page.lines))
    ELSE title_of_clean(clean_segment(segment), page)

title_of_top(top_text, page) ==
    IF top_text = <<>> THEN _title_between_markers_fallback(page_get_text(page.lines))
    ELSE title_of_segment(marker_segment(top_text), page)

guess_doc_title_from_first_page(page) == title_of_top(top_text_of(page), page)

(***************************************************************************)
(* Harness of the normalizer: the raw strings it is applied to.            *)
(***************************************************************************)
\* spellings of the prefix that match (art\.?) and some that do not
ArtPrefixes == {<<"A","r","t",".">>, <<"a","r","t">>, <<"A","R","T",".">>}

OtherPrefixes == {<<>>, <<"x">>}

NormAlphabet == {" ", "0", "7", "a", "V", "sup3", "-"}

\* whitespace that may stand between the parts of an article number
Gaps == {<<>>, <<" ">>, <<"\t", "\n">>}

\* the examples of the module docstring
DocExamples ==
    { <<"A","r","t",".","7","0","6","4">>,
      <<"A","r","t","."," ","7","0","a","sup3">>,
      <<"A","r","t","."," ","I","V","sup2">>,
      <<"A","r","t",".","I","V","1","2">>,
      <<"A","r","t","."," ","7","0","a">>,
      <<"a","r","t"," "," ","7","0","A"," ","1","2">> }

FormDigits == SeqsUpTo({"0", "7"}, 3) \ {<<>>}

FormLetters == {"a", "V", "X"}

FormTails == SeqsUpTo({"1", "sup3"}, 2)

\* roman numerals of the standard grammar, drawn from a few values per decimal place
FormRomans ==
    { m \o c \o x \o i :
        m \in {<<>>, <<"M">>},
        c \in {<<>>, <<"C">>, <<"C","D">>},
        x \in {<<>>, <<"X">>, <<"L","X","X","X">>, <<"X","C">>},
        i \in {<<>>, <<"I">>, <<"I","V">>, <<"V","I","I","I">>} } \ {<<>>}

\* the shapes a raw string is drawn from
FreeForms ==
    [kind : {"free"}, prefix : ArtPrefixes \cup OtherPrefixes,
     rest : SeqsUpTo(NormAlphabet, MaxRest)]

DigitForms ==
    [kind : {"digits"}, prefix : ArtPrefixes, digits : {d \in SeqsUpTo(Digits \cap {"0","4","6","7"}, 4) : Len(d) = 4}]

ArabicForms ==
    [kind : {"arabic"}, prefix : ArtPrefixes, g1 : Gaps, digits : FormDigits,
     g2 : Gaps, letter : FormLetters, g3 : {<<>>, <<" ">>}, tail : FormTails]

RomanForms ==
    [kind : {"roman"}, prefix : ArtPrefixes, g1 : Gaps, roman : FormRomans,
     lowercase : BOOLEAN, g3 : {<<>>, <<" ">>}, tail : FormTails]

ExampleForms == [kind : {"example"}, raw : DocExamples]

RawOf(f) ==
    CASE f.kind = "free"    -> f.prefix \o f.rest
      [] f.kind = "digits"  -> f.prefix \o f.digits
      [] f.kind = "arabic"  -> f.prefix \o f.g1 \o f.digits \o f.g2 \o <<f.letter>> \o f.g3 \o f.tail
      [] f.kind = "roman"   -> f.prefix \o f.g1 \o (IF f.lowercase THEN Lower(f.roman) ELSE f.roman)
                                \o f.g3 \o f.tail
      [] f.kind = "example" -> f.raw

NormInit ==
    /\ ServerIdle
    /\ n_form \in FreeForms \cup DigitForms \cup ArabicForms \cup RomanForms \cup ExampleForms
    /\ n_raw = RawOf(n_form)
    /\ n_tail_max \in 1..MaxTailMax
    /\ n_res = None
    /\ n_res2 = None
    /\ n_pc = "in"
    /\ SegIdle
    /\ PageIdle
    /\ TitleIdle
    /\ DocIdIdle
    /\ StoreIdle

\* new_art, foot = normalize_article_number(art, tail_max=args.tail_max)
Normalize ==
    /\ n_pc = "in"
    /\ n_res' = normalize_article_number(n_raw, n_tail_max)
    /\ n_pc' = "once"
    /\ UNCHANGED <<n_form, n_raw, n_tail_max, n_res2, segVars, pageVars, firstPageVars, storeVars, serverVars>>

\* a later pass finds the stored number and normalizes it again
Renormalize ==
    /\ n_pc = "once"
    /\ n_res # re_error
    /\ n_res2' = normalize_article_number(n_res[1], n_tail_max)
    /\ n_pc' = "twice"
    /\ UNCHANGED <<n_form, n_raw, n_tail_max, n_res, segVars, pageVars, firstPageVars, storeVars, serverVars>>

NormNext == Normalize \/ Renormalize

SpecNorm == NormInit /\ [][NormNext]_vars

\* the normalizer under every --tail_max that argparse (type=int) accepts, here the
\* integers from -1 on; a negative tail_max makes \d{1,-1} a digit followed by the
\* literal text {1,-1}, which no raw string of the harness contains
TailMaxArgs == -1..MaxTailMax

NormAnyInit ==
    /\ ServerIdle
    /\ n_form \in FreeForms \cup ExampleForms
    /\ n_raw = RawOf(n_form)
    /\ n_tail_max \in TailMaxArgs
    /\ n_res = None
    /\ n_res2 = None
    /\ n_pc = "in"
    /\ SegIdle
    /\ PageIdle
    /\ TitleIdle
    /\ DocIdIdle
    /\ StoreIdle

SpecNormAny == NormAnyInit /\ [][NormNext]_vars

(***************************************************************************)
(* Harness of pdf2articles: generated PDFs.                                *)
(***************************************************************************)
EndOfPage == <<"PB">>

SegTokens ==
    {<<"A", "r", "t", ".", "1">>, <<"A", "r", "t", ".">>, <<"1">>, <<"\n">>, <<" ">>, <<"x">>}

\* the page texts spelled by a token sequence; EndOfPage closes a page
RECURSIVE SplitPages(_, _, _)
SplitPages(ts, cur, acc) ==
    IF ts = <<>> THEN Append(acc, cur)
    ELSE IF Head(ts) = EndOfPage THEN SplitPages(Tail(ts), <<>>, Append(acc, cur))
    ELSE SplitPages(Tail(ts), cur \o Head(ts), acc)

\* PDFs of one page or more, and the PDF without pages
SegDocs ==
    {SplitPages(ts, <<>>, <<>>) : ts \in SeqsUpTo(SegTokens \cup {EndOfPage}, MaxDocTokens)}
        \cup {<<>>}

FullText(page_texts) == load_pdf_text_with_pages(page_texts).full_text

SegInit ==
    /\ ServerIdle
    /\ s_pages \in SegDocs
    /\ s_segments = <<>>
    /\ s_records = <<>>
    /\ s_pc = "pdf"
    /\ NormIdle
    /\ PageIdle
    /\ TitleIdle
    /\ DocIdIdle
    /\ StoreIdle

\* segments = find_articles_segments(full_text)
Segment ==
    /\ s_pc = "pdf"
    /\ s_segments' = find_articles_segments(FullText(s_pages))
    /\ s_pc' = "segmented"
    /\ UNCHANGED <<s_pages, s_records, normVars, pageVars, firstPageVars, storeVars, serverVars>>

\* for rec in process_pdf(pdf): ...
ProcessPdf ==
    /\ s_pc = "pdf"
    /\ s_records' = process_pdf(s_pages)
    /\ s_pc' = "emitted"
    /\ UNCHANGED <<s_pages, s_segments, normVars, pageVars, firstPageVars, storeVars, serverVars>>

SegNext == Segment \/ ProcessPdf

SpecSeg == SegInit /\ [][SegNext]_vars

(***************************************************************************)
(* Harness of span_to_page_range: page-start offsets and spans.            *)
(***************************************************************************)
\* non-decreasing offset lists that begin at 0, and the empty list
PageOffsetLists ==
    {o \in SeqsUpTo(0..MaxOffset, MaxPageCount) :
        /\ o # <<>> => o[1] = 0
        /\ \A i \in 1..(Len(o) - 1) : o[i] <= o[i + 1]}

PageInit ==
    /\ ServerIdle
    /\ p_offsets \in PageOffsetLists
    /\ p_span \in {sp \in (0..(MaxOffset + 1)) \X (0..(MaxOffset + 1)) : sp[1] <= sp[2]}
    /\ p_range = <<0, 0>>
    /\ p_pc = "in"
    /\ NormIdle
    /\ SegIdle
    /\ TitleIdle
    /\ DocIdIdle
    /\ StoreIdle

\* p_start, p_end = span_to_page_range(start, end, page_offsets)
MapSpan ==
    /\ p_pc = "in"
    /\ p_range' = span_to_page_range(p_span[1], p_span[2], p_offsets)
    /\ p_pc' = "out"
    /\ UNCHANGED <<p_offsets, p_span, normVars, segVars, firstPageVars, storeVars, serverVars>>

PageNext == MapSpan

SpecPage == PageInit /\ [][PageNext]_vars

\* the three groups at offset p, the \b on either side left out
no_word_boundaries(text, p, a, b, c) ==
    IF /\ a \in 1..3 /\ b \in 1..3 /\ c >= 1
       /\ p + a < Len(text) /\ text[p + a + 1] = "."
       /\ p + a + b + 1 < Len(text) /\ text[p + a + b + 2] = "."
    THEN [ok |-> TRUE, start |-> p, end |-> p + a + b + 2 + (IF c < 3 THEN c ELSE 3)]
    ELSE NoSearchMatch

\* DOC_ID_RE at offset p, a, b and c being the lengths of the three runs of digits
DOC_ID_RE_groups(text, p, a, b, c) ==
    IF /\ a \in 1..3 /\ b \in 1..3 /\ c \in 1..3
       /\ p + a < Len(text) /\ text[p + a + 1] = "."
       /\ p + a + b + 1 < Len(text) /\ text[p + a + b + 2] = "."
       /\ WordBoundary(text, p)
       /\ WordBoundary(text, p + a + b + c + 2)
    THEN [ok |-> TRUE, start |-> p, end |-> p + a + b + c + 2]
    ELSE NoSearchMatch

DOC_ID_RE_second(text, p, a, b) ==
    DOC_ID_RE_groups(text, p, a, b, SpanOf(Drop(text, p + a + b + 2), Digits))

DOC_ID_RE_first(text, p, a) ==
    DOC_ID_RE_second(text, p, a, SpanOf(Drop(text, p + a + 1), Digits))

DOC_ID_RE_at(text, p) == DOC_ID_RE_first(text, p, SpanOf(Drop(text, p), Digits))

DOC_ID_RE_leftmost(text, starts) ==
    IF starts = {} THEN NoSearchMatch
    ELSE DOC_ID_RE_at(text, CHOOSE x \in starts : \A y \in starts : x <= y)

\* DOC_ID_RE.search(text)
DOC_ID_RE_search(text) ==
    DOC_ID_RE_leftmost(text, {p \in 0..Len(text) : DOC_ID_RE_at(text, p).ok})

doc_id_of_match(text, m) == IF m.ok THEN SubSeq(text, m.start + 1, m.end) ELSE None

guess_doc_id_from_first_page(page_text) == doc_id_of_match(page_text, DOC_ID_RE_search(page_text))

\* guess_doc_id_from_first_page(first_page_text) or pdf_path.stem
doc_id_or_stem(guess, stem) == IF guess = None \/ guess = <<>> THEN stem ELSE guess

(***************************************************************************)
(* Harness of the title detector: page 1 of a PDF as its text lines in     *)
(* reading order, the first `upper` of them lying in the upper half.       *)
(***************************************************************************)
MaxTitleTokens == 4

TexteOriginalMarker == <<"T", "e", "x", "t", "e", " ", "o", "r", "i", "g", "i", "n", "a", "l">>

ConclueMarker == <<"C", "o", "n", "c", "l", "u", "e">>

BareDocId == <<"1", ".", "2", ".", "3">>

EndOfLine == <<"\n">>

TitleTokens ==
    {TexteOriginalMarker, ConclueMarker, BareDocId, <<"a">>, <<" ">>, <<"-">>, <<"fi_lig">>}

\* the lines spelled by a token sequence; EndOfLine closes a line
RECURSIVE SplitLines(_, _, _)
SplitLines(ts, cur, acc) ==
    IF ts = <<>> THEN Append(acc, cur)
    ELSE IF Head(ts) = EndOfLine THEN SplitLines(Tail(ts), <<>>, Append(acc, cur))
    ELSE SplitLines(Tail(ts), cur \o Head(ts), acc)

\* the lines of the page a token sequence spells; no token, no line
PageLines(ts) == IF Len(ts) = 0 THEN <<>> ELSE SplitLines(ts, <<>>, <<>>)

TitleInit ==
    /\ ServerIdle
    /\ \E n \in 0..MaxTitleTokens : \E ts \in [1..n -> TitleTokens \cup {EndOfLine}] :
          \E u \in 0..Len(PageLines(ts)) : t_page = [lines |-> PageLines(ts), upper |-> u]
    /\ t_title = <<>>
    /\ t_pc = "page"
    /\ NormIdle
    /\ SegIdle
    /\ PageIdle
    /\ DocIdIdle
    /\ StoreIdle

\* doc_title = guess_doc_title_from_first_page(doc[0])
DetectTitle ==
    /\ t_pc = "page"
    /\ t_title' = guess_doc_title_from_first_page(t_page)
    /\ t_pc' = "done"
    /\ UNCHANGED <<t_page, d_text, d_doc_id, d_pc, normVars, segVars, pageVars, storeVars, serverVars>>

TitleNext == DetectTitle

SpecTitle == TitleInit /\ [][TitleNext]_vars

(***************************************************************************)
(* Harness of the document id: the text of page 1 and the stem of the file *)
(* name.                                                                   *)
(***************************************************************************)
MaxDocIdLen == 6

DocIdChars == {"1", ".", "a", " "}

FileStems == {<<"a">>, <<"9", ".", "9", ".", "9">>}

DocIdInit ==
    /\ ServerIdle
    /\ \E n \in 0..MaxDocIdLen : \E t \in [1..n -> DocIdChars] : \E stem \in FileStems :
          d_text = [first_page_text |-> SubSeq(t, 1, n), stem |-> stem]
    /\ d_doc_id = <<>>
    /\ d_pc = "text"
    /\ NormIdle
    /\ SegIdle
    /\ PageIdle
    /\ TitleIdle
    /\ StoreIdle

\* doc_id = guess_doc_id_from_first_page(first_page_text) or pdf_path.stem
GuessDocId ==
    /\ d_pc = "text"
    /\ d_doc_id' = doc_id_or_stem(guess_doc_id_from_first_page(d_text.first_page_text), d_text.stem)
    /\ d_pc' = "done"
    /\ UNCHANGED <<d_text, t_page, t_title, t_pc, normVars, segVars, pageVars, storeVars, serverVars>>

DocIdNext == GuessDocId

SpecDocId == DocIdInit /\ [][DocIdNext]_vars

(***************************************************************************)
(* The graph store and the scripts that write it: pdf2articles.py (main),  *)
(* neo4j_loader.py, neo4j_set_pdf_path.py, neo4j_fix_superscripts.py       *)
(* (main) and neo4j_fix_docids_titles.py.  The scripts run one at a time.  *)
(***************************************************************************)
\* a string-valued property or result that is absent (null / None)
Null == "null"

PdfPaths == {"a.pdf", "b.pdf"}

\* Path(pdf_path).stem
Stem(pdf_path) == IF pdf_path = "a.pdf" THEN "a" ELSE "b"

Loi == <<"L", "o", "i">>

\* what a source file yields: the document id found on page 1 (Null when there is
\* none), the title the detector returns, and the numbers of the headings found
Unreadable == [readable |-> FALSE, id |-> Null, title |-> None, headings |-> <<>>]

PdfContents ==
    {Unreadable,
     [readable |-> TRUE, id |-> Null, title |-> Loi,
      headings |-> << <<"7", "0", "6">>, <<"7", "0", "6", "4">> >>],
     [readable |-> TRUE, id |-> "0.747.205", title |-> Loi,
      headings |-> << <<"7", "0", "6", "4">> >>]}

ArticleTitle(article_number, doc_title) == article_number \o <<",", " ">> \o doc_title

\* the records process_pdf yields for a file (one article per page)
emitted_records(pdf_path, c) ==
    LET nums == c.headings
        doc_id == IF c.id # Null THEN c.id ELSE Stem(pdf_path)
    IN [k \in 1..Len(nums) |->
          LET article_number == <<"A", "r", "t", ".", " ">> \o nums[k]
          IN [doc_id |-> doc_id,
              article_number |-> article_number,
              title |-> ArticleTitle(article_number, c.title),
              page_start |-> k,
              page_end |-> k,
              pdf_path |-> pdf_path]]

\* the ids of the Article nodes with the given key
ArticlesWithKey(arts, doc_id, article_number) ==
    {i \in 1..Len(arts) : arts[i].doc_id = doc_id /\ arts[i].article_number = article_number}

\* the Cypher of neo4j_loader.py with CREATE in place of MERGE for the Article
loader_cypher_create(st, rec) ==
    [articles |-> Append(st.articles,
                         [doc_id |-> rec.doc_id,
                          article_number |-> rec.article_number,
                          title |-> rec.title,
                          page_start |-> rec.page_start,
                          page_end |-> rec.page_end,
                          pdf_path |-> Null,
                          article_footnote |-> None,
                          text_full |-> None]),
     documents |-> [d \in DOMAIN st.documents \cup {rec.doc_id} |->
                      IF d \in DOMAIN st.documents THEN st.documents[d] ELSE None],
     edges |-> st.edges \cup {<<rec.doc_id, Len(st.articles) + 1>>}]

\* the Cypher of neo4j_loader.py run for one record, on the store st
loader_cypher(st, rec) ==
    LET docs1 == [d \in DOMAIN st.documents \cup {rec.doc_id} |->
                    IF d \in DOMAIN st.documents THEN st.documents[d] ELSE None]
        found == ArticlesWithKey(st.articles, rec.doc_id, rec.article_number)
        arts1 == IF found = {}
                 THEN Append(st.articles,
                             [doc_id |-> rec.doc_id,
                              article_number |-> rec.article_number,
                              title |-> rec.title,
                              page_start |-> rec.page_start,
                              page_end |-> rec.page_end,
                              pdf_path |-> Null,
                              article_footnote |-> None,
                              text_full |-> None])
                 ELSE [i \in 1..Len(st.articles) |->
                         IF i \in found
                         THEN [st.articles[i] EXCEPT !.page_start = rec.page_start,
                                                     !.page_end = rec.page_end]
                         ELSE st.articles[i]]
        merged == IF found = {} THEN {Len(arts1)} ELSE found
    IN [articles |-> arts1,
        documents |-> docs1,
        edges |-> st.edges \cup {<<rec.doc_id, i>> : i \in merged}]

\* neo4j_loader.main: every line of the file, in order
RECURSIVE loader_main(_, _)
loader_main(st, lines) ==
    IF lines = <<>> THEN st ELSE loader_main(loader_cypher(st, Head(lines)), Tail(lines))

\* a page property that is absent
NoPage == 0

\* a.get("text") or "": the records of process_pdf carry text_full and no text
text_of(rec) == IF "text" \in DOMAIN rec THEN rec.text ELSE <<>>

\* the Cypher of neo4j_article_text_loader.py run for one record, on the store st;
\* text_preview, the ascii variants and text_chars are functions of text_full
text_loader_cypher(st, rec) ==
    LET found == ArticlesWithKey(st.articles, rec.doc_id, rec.article_number)
    IN [st EXCEPT !.articles =
          IF found = {}
          THEN Append(st.articles,
                      [doc_id |-> rec.doc_id,
                       article_number |-> rec.article_number,
                       title |-> None,
                       page_start |-> NoPage,
                       page_end |-> NoPage,
                       pdf_path |-> Null,
                       article_footnote |-> None,
                       text_full |-> text_of(rec)])
          ELSE [i \in 1..Len(st.articles) |->
                  IF i \in found
                  THEN [st.articles[i] EXCEPT !.text_full = text_of(rec)]
                  ELSE st.articles[i]]]

\* neo4j_article_text_loader.main: every line of the file, in order
RECURSIVE text_loader_main(_, _)
text_loader_main(st, lines) ==
    IF lines = <<>> THEN st
    ELSE text_loader_main(text_loader_cypher(st, Head(lines)), Tail(lines))

\* neo4j_set_pdf_path.main: every line of the file, in order
RECURSIVE set_pdf_path_main(_, _)
set_pdf_path_main(arts, lines) ==
    IF lines = <<>> THEN arts
    ELSE LET rec == Head(lines)
             found == ArticlesWithKey(arts, rec.doc_id, rec.article_number)
         IN set_pdf_path_main(
                [i \in 1..Len(arts) |->
                    IF i \in found /\ rec.pdf_path # Null
                    THEN [arts[i] EXCEPT !.pdf_path = rec.pdf_path] ELSE arts[i]],
                Tail(lines))

\* the default of --tail_max
tail_max_default == 2

\* toLower(a.article_number) STARTS WITH 'art'
StartsWithArt(article_number) ==
    Len(article_number) >= 3 /\ Lower(Take(article_number, 3)) = <<"a", "r", "t">>

\* fix_superscripts_row writing article_footnote and leaving article_number as it is
fix_superscripts_row_footnote_only(a, tail_max) ==
    IF ~StartsWithArt(a.article_number) THEN a
    ELSE LET res == normalize_article_number(a.article_number, tail_max)
         IN IF res[1] # a.article_number \/ (res[2] # None /\ res[2] # <<>>)
            THEN [a EXCEPT !.article_footnote = res[2]]
            ELSE a

\* neo4j_fix_superscripts.main without --dry: one Article of the result
fix_superscripts_row(a, tail_max) ==
    IF ~StartsWithArt(a.article_number) THEN a
    ELSE LET res == normalize_article_number(a.article_number, tail_max)
             new_art == res[1]
             foot == res[2]
         IN IF new_art # a.article_number \/ (foot # None /\ foot # <<>>)
            THEN [a EXCEPT !.article_number = new_art, !.article_footnote = foot]
            ELSE a

\* neo4j_fix_superscripts.main without --dry: every Article of the store
fix_superscripts_main(arts, tail_max) ==
    [i \in 1..Len(arts) |-> fix_superscripts_row(arts[i], tail_max)]

\* "if new_art != art or foot" for the row of the Article a
row_is_fixed(a, tail_max) ==
    LET res == normalize_article_number(a.article_number, tail_max)
    IN res[1] # a.article_number \/ (res[2] # None /\ res[2] # <<>>)

\* the rows the query of main returns: the Articles whose number starts with 'art'
fix_superscripts_rows(arts) == {i \in 1..Len(arts) : StartsWithArt(arts[i].article_number)}

\* the (fixed, unchanged) pair main prints at the end of a pass over arts
fix_superscripts_counts(arts, tail_max) ==
    [fixed |-> Cardinality({i \in fix_superscripts_rows(arts) : row_is_fixed(arts[i], tail_max)}),
     unchanged |-> Cardinality({i \in fix_superscripts_rows(arts) : ~row_is_fixed(arts[i], tail_max)})]

\* probe_pdf_first_page: (doc_id, doc_title), or (None, None) when unreadable
probe_pdf_first_page(c) ==
    IF c.readable THEN [doc_id |-> c.id, doc_title |-> c.title]
    ELSE [doc_id |-> Null, doc_title |-> None]

\* CYPHER_LIST_PDFS: the Articles with a pdf_path, grouped by pdf_path, ordered by it
CYPHER_LIST_PDFS(arts) ==
    LET group(path) ==
            [pdf_path |-> path,
             arts |-> [k \in 1..Len(SelectSeq(arts, LAMBDA a : a.pdf_path = path)) |->
                         LET a == SelectSeq(arts, LAMBDA b : b.pdf_path = path)[k]
                         IN [doc_id |-> a.doc_id, article_number |-> a.article_number]]]
        present(path) == \E i \in 1..Len(arts) : arts[i].pdf_path = path
    IN (IF present("a.pdf") THEN <<group("a.pdf")>> ELSE <<>>)
           \o (IF present("b.pdf") THEN <<group("b.pdf")>> ELSE <<>>)

\* CYPHER_UPDATE_GROUP committing after the first row of UNWIND
CYPHER_UPDATE_GROUP_first_row(st, pdf_path, newDocId, docTitle, arts) ==
    LET created == newDocId \notin DOMAIN st.documents
        docs1 == [d \in DOMAIN st.documents \cup {newDocId} |->
                    IF d = newDocId
                    THEN IF created \/ docTitle # None THEN docTitle ELSE st.documents[d]
                    ELSE st.documents[d]]
        nums == IF arts = <<>> THEN {} ELSE {arts[1].article_number}
        found == {i \in 1..Len(st.articles) :
                     /\ st.articles[i].pdf_path = pdf_path
                     /\ st.articles[i].article_number \in nums}
        arts1 == [i \in 1..Len(st.articles) |->
                    IF i \in found
                    THEN [st.articles[i] EXCEPT
                             !.doc_id = newDocId,
                             !.title = ArticleTitle(st.articles[i].article_number, docTitle)]
                    ELSE st.articles[i]]
        deleted == {e \in st.edges : e[2] \in found}
        edges1 == (st.edges \ deleted) \cup {<<newDocId, i>> : i \in found}
    IN [articles |-> arts1,
        documents |-> docs1,
        edges |-> edges1,
        counters |-> [relationships_deleted |-> Cardinality(deleted),
                      relationships_created |-> Cardinality(found),
                      nodes_created |-> IF created THEN 1 ELSE 0,
                      nodes_deleted |-> 0]]

\* CYPHER_UPDATE_GROUP without DELETE r: the edges found stay
CYPHER_UPDATE_GROUP_keep_edges(st, pdf_path, newDocId, docTitle, arts) ==
    LET created == newDocId \notin DOMAIN st.documents
        docs1 == [d \in DOMAIN st.documents \cup {newDocId} |->
                    IF d = newDocId
                    THEN IF created \/ docTitle # None THEN docTitle ELSE st.documents[d]
                    ELSE st.documents[d]]
        nums == {arts[k].article_number : k \in 1..Len(arts)}
        found == {i \in 1..Len(st.articles) :
                     /\ st.articles[i].pdf_path = pdf_path
                     /\ st.articles[i].article_number \in nums}
        arts1 == [i \in 1..Len(st.articles) |->
                    IF i \in found
                    THEN [st.articles[i] EXCEPT
                             !.doc_id = newDocId,
                             !.title = ArticleTitle(st.articles[i].article_number, docTitle)]
                    ELSE st.articles[i]]
        edges1 == st.edges \cup {<<newDocId, i>> : i \in found}
        keepers == IF found = {} THEN {} ELSE {newDocId}
        orphans == {d \in DOMAIN docs1 : d \notin keepers /\ ~(\E e \in edges1 : e[1] = d)}
    IN [articles |-> arts1,
        documents |-> [d \in DOMAIN docs1 \ orphans |-> docs1[d]],
        edges |-> edges1,
        counters |-> [relationships_deleted |-> 0,
                      relationships_created |-> Cardinality(edges1 \ st.edges),
                      nodes_created |-> IF created THEN 1 ELSE 0,
                      nodes_deleted |-> Cardinality(orphans)]]

\* CYPHER_UPDATE_GROUP with a clean-up that deletes only the Documents that had no
\* Article before the update
CYPHER_UPDATE_GROUP_lazy_cleanup(st, pdf_path, newDocId, docTitle, arts) ==
    LET created == newDocId \notin DOMAIN st.documents
        docs1 == [d \in DOMAIN st.documents \cup {newDocId} |->
                    IF d = newDocId
                    THEN IF created \/ docTitle # None THEN docTitle ELSE st.documents[d]
                    ELSE st.documents[d]]
        nums == {arts[k].article_number : k \in 1..Len(arts)}
        found == {i \in 1..Len(st.articles) :
                     /\ st.articles[i].pdf_path = pdf_path
                     /\ st.articles[i].article_number \in nums}
        arts1 == [i \in 1..Len(st.articles) |->
                    IF i \in found
                    THEN [st.articles[i] EXCEPT
                             !.doc_id = newDocId,
                             !.title = ArticleTitle(st.articles[i].article_number, docTitle)]
                    ELSE st.articles[i]]
        deleted == {e \in st.edges : e[2] \in found}
        edges1 == (st.edges \ deleted) \cup {<<newDocId, i>> : i \in found}
        orphans == {d \in DOMAIN st.documents :
                       ~(\E e \in st.edges : e[1] = d) /\ ~(\E e \in edges1 : e[1] = d)}
    IN [articles |-> arts1,
        documents |-> [d \in DOMAIN docs1 \ orphans |-> docs1[d]],
        edges |-> edges1,
        counters |-> [relationships_deleted |-> Cardinality(deleted),
                      relationships_created |-> Cardinality(found),
                      nodes_created |-> IF created THEN 1 ELSE 0,
                      nodes_deleted |-> Cardinality(orphans)]]

\* CYPHER_UPDATE_GROUP matching the Articles on article_number alone
CYPHER_UPDATE_GROUP_any_file(st, pdf_path, newDocId, docTitle, arts) ==
    LET created == newDocId \notin DOMAIN st.documents
        docs1 == [d \in DOMAIN st.documents \cup {newDocId} |->
                    IF d = newDocId
                    THEN IF created \/ docTitle # None THEN docTitle ELSE st.documents[d]
                    ELSE st.documents[d]]
        nums == {arts[k].article_number : k \in 1..Len(arts)}
        found == {i \in 1..Len(st.articles) : st.articles[i].article_number \in nums}
        arts1 == [i \in 1..Len(st.articles) |->
                    IF i \in found
                    THEN [st.articles[i] EXCEPT
                             !.doc_id = newDocId,
                             !.title = ArticleTitle(st.articles[i].article_number, docTitle)]
                    ELSE st.articles[i]]
        deleted == {e \in st.edges : e[2] \in found}
        edges1 == (st.edges \ deleted) \cup {<<newDocId, i>> : i \in found}
        keepers == IF found = {} THEN {} ELSE {newDocId}
        orphans == {d \in DOMAIN docs1 : d \notin keepers /\ ~(\E e \in edges1 : e[1] = d)}
    IN [articles |-> arts1,
        documents |-> [d \in DOMAIN docs1 \ orphans |-> docs1[d]],
        edges |-> edges1,
        counters |-> [relationships_deleted |-> Cardinality(deleted),
                      relationships_created |-> Cardinality(found),
                      nodes_created |-> IF created THEN 1 ELSE 0,
                      nodes_deleted |-> Cardinality(orphans)]]

\* CYPHER_UPDATE_GROUP on the store st, in one transaction
CYPHER_UPDATE_GROUP(st, pdf_path, newDocId, docTitle, arts) ==
    LET \* 1) MERGE the target Document
        created == newDocId \notin DOMAIN st.documents
        docs1 == [d \in DOMAIN st.documents \cup {newDocId} |->
                    IF d = newDocId
                    THEN IF created \/ docTitle # None THEN docTitle ELSE st.documents[d]
                    ELSE st.documents[d]]
        \* 2) every Article of the PDF listed in arts: doc_id, title, edge
        nums == {arts[k].article_number : k \in 1..Len(arts)}
        found == {i \in 1..Len(st.articles) :
                     /\ st.articles[i].pdf_path = pdf_path
                     /\ st.articles[i].article_number \in nums}
        arts1 == [i \in 1..Len(st.articles) |->
                    IF i \in found
                    THEN [st.articles[i] EXCEPT
                             !.doc_id = newDocId,
                             !.title = ArticleTitle(st.articles[i].article_number, docTitle)]
                    ELSE st.articles[i]]
        deleted == {e \in st.edges : e[2] \in found}
        edges1 == (st.edges \ deleted) \cup {<<newDocId, i>> : i \in found}
        \* 3) delete the Documents without Article, the keepers excepted
        keepers == IF found = {} THEN {} ELSE {newDocId}
        orphans == {d \in DOMAIN docs1 : d \notin keepers /\ ~(\E e \in edges1 : e[1] = d)}
    IN [articles |-> arts1,
        documents |-> [d \in DOMAIN docs1 \ orphans |-> docs1[d]],
        edges |-> edges1,
        counters |-> [relationships_deleted |-> Cardinality(deleted),
                      relationships_created |-> Cardinality(found),
                      nodes_created |-> IF created THEN 1 ELSE 0,
                      nodes_deleted |-> Cardinality(orphans)]]

\* the target without the test that skips a file that cannot be read
reconciler_target_no_skip(g, c) ==
    LET probe == probe_pdf_first_page(c)
        old_ids == SelectSeq(g.arts, LAMBDA a : a.doc_id # Null)
    IN [new_doc_id |-> IF probe.doc_id # Null THEN probe.doc_id
                       ELSE IF old_ids # <<>> THEN old_ids[1].doc_id
                       ELSE Stem(g.pdf_path),
        doc_title |-> IF probe.doc_title # None THEN probe.doc_title ELSE TitreInconnu]

\* the (new_doc_id, doc_title) main settles on for a group, Null when it skips the file
reconciler_target(g, c) ==
    LET probe == probe_pdf_first_page(c)
        old_ids == SelectSeq(g.arts, LAMBDA a : a.doc_id # Null)
    IN IF probe.doc_id = Null /\ probe.doc_title = None
       THEN [new_doc_id |-> Null, doc_title |-> None]
       ELSE [new_doc_id |-> IF probe.doc_id # Null THEN probe.doc_id
                            ELSE IF old_ids # <<>> THEN old_ids[1].doc_id
                            ELSE Stem(g.pdf_path),
             doc_title |-> IF probe.doc_title # None THEN probe.doc_title ELSE TitreInconnu]

\* the body of the loop of main for the group g, t being the target settled on
turn_written(g, t, w) ==
    [articles |-> w.articles, documents |-> w.documents, edges |-> w.edges,
     counters |-> w.counters,
     report |-> [kind |-> "ok", pdf_path |-> g.pdf_path,
                 new_doc_id |-> t.new_doc_id, doc_title |-> t.doc_title],
     fixed |-> 1, skipped |-> 0]

turn_with_target(st, g, t, commit) ==
    IF t.new_doc_id = Null
    THEN [articles |-> st.articles, documents |-> st.documents, edges |-> st.edges,
          counters |-> ZeroCounters,
          report |-> [kind |-> "skip", pdf_path |-> g.pdf_path,
                      new_doc_id |-> Null, doc_title |-> <<>>],
          fixed |-> 0, skipped |-> 1]
    ELSE IF commit
    THEN turn_written(g, t, CYPHER_UPDATE_GROUP(st, g.pdf_path, t.new_doc_id, t.doc_title, g.arts))
    ELSE [articles |-> st.articles, documents |-> st.documents, edges |-> st.edges,
          counters |-> ZeroCounters,
          report |-> [kind |-> "dry-run", pdf_path |-> g.pdf_path,
                      new_doc_id |-> t.new_doc_id, doc_title |-> t.doc_title],
          fixed |-> 0, skipped |-> 0]

\* the body of the loop writing whether or not --commit is given
turn_always_written(st, g, c, commit) == turn_with_target(st, g, reconciler_target(g, c), TRUE)

reconcile_turn(st, g, c, commit) == turn_with_target(st, g, reconciler_target(g, c), commit)

StoreOf(turn) ==
    [articles |-> turn.articles, documents |-> turn.documents, edges |-> turn.edges]

\* the loop of main over the listed groups; files maps a pdf_path to its content
RECURSIVE reconciler_main(_, _, _, _)
reconciler_main(st, groups, files, commit) ==
    IF groups = <<>> THEN st
    ELSE reconciler_main(
             StoreOf(reconcile_turn(st, Head(groups), files[Head(groups).pdf_path], commit)),
             Tail(groups), files, commit)

Store == [articles |-> articles, documents |-> documents, edges |-> edges]

StoreInit ==
    /\ ServerIdle
    /\ pdfs \in [PdfPaths -> PdfContents]
    /\ jsonl = <<>>
    /\ articles = <<>>
    /\ documents = [d \in {} |-> None]
    /\ edges = {}
    /\ r_pc = "idle"
    /\ r_commit = FALSE
    /\ r_groups = <<>>
    /\ r_stats = ZeroStats
    /\ r_report = NoReport
    /\ counters = ZeroCounters
    /\ loaded = FALSE
    /\ settled = FALSE
    /\ NormIdle
    /\ SegIdle
    /\ PageIdle
    /\ TitleIdle
    /\ DocIdIdle

harnessVars == <<normVars, segVars, pageVars, firstPageVars, serverVars>>

\* a source file is replaced or removed
EditPdf(f, c) ==
    /\ r_pc = "idle"
    /\ c # pdfs[f]
    /\ pdfs' = [pdfs EXCEPT ![f] = c]
    /\ loaded' = FALSE
    /\ settled' = FALSE
    /\ UNCHANGED <<jsonl, articles, documents, edges, r_pc, r_commit, r_groups, r_stats,
                   r_report, counters, harnessVars>>

\* pdf2articles.py --pdf f
Extract(f) ==
    /\ r_pc = "idle"
    /\ pdfs[f].readable
    /\ jsonl' = emitted_records(f, pdfs[f])
    /\ loaded' = (loaded /\ jsonl' = jsonl)
    /\ UNCHANGED <<pdfs, articles, documents, edges, r_pc, r_commit, r_groups, r_stats,
                   r_report, counters, settled, harnessVars>>

\* neo4j_loader.py --articles out/articles.jsonl
Load ==
    /\ r_pc = "idle"
    /\ jsonl # <<>>
    /\ LET st == loader_main(Store, jsonl)
       IN /\ Len(st.articles) <= MaxArticles
          /\ articles' = st.articles
          /\ documents' = st.documents
          /\ edges' = st.edges
    /\ loaded' = TRUE
    /\ settled' = FALSE
    /\ UNCHANGED <<pdfs, jsonl, r_pc, r_commit, r_groups, r_stats, r_report, counters,
                   harnessVars>>

\* neo4j_set_pdf_path.py --articles out/articles.jsonl
SetPdfPath ==
    /\ r_pc = "idle"
    /\ jsonl # <<>>
    /\ articles' = set_pdf_path_main(articles, jsonl)
    /\ settled' = FALSE
    /\ UNCHANGED <<pdfs, jsonl, documents, edges, r_pc, r_commit, r_groups, r_stats,
                   r_report, counters, loaded, harnessVars>>

\* neo4j_fix_superscripts.py --tail_max tail_max   (a complete pass, not --dry)
FixSuperscripts(tail_max) ==
    /\ r_pc = "idle"
    /\ articles' = fix_superscripts_main(articles, tail_max)
    /\ settled' = FALSE
    /\ UNCHANGED <<pdfs, jsonl, documents, edges, r_pc, r_commit, r_groups, r_stats,
                   r_report, counters, loaded, harnessVars>>

\* neo4j_fix_docids_titles.py [--commit]: the listing that opens a run
ReconcileStart(commit) ==
    /\ r_pc = "idle"
    /\ r_pc' = "running"
    /\ r_commit' = commit
    /\ r_groups' = CYPHER_LIST_PDFS(articles)
    /\ r_stats' = ZeroStats
    /\ r_report' = NoReport
    /\ counters' = ZeroCounters
    /\ UNCHANGED <<pdfs, jsonl, articles, documents, edges, loaded, settled,
                   harnessVars>>

\* one turn of the loop of main: the next group
ReconcileGroup ==
    /\ r_pc = "running"
    /\ r_groups # <<>>
    /\ LET turn == reconcile_turn(Store, Head(r_groups), pdfs[Head(r_groups).pdf_path], r_commit)
       IN /\ articles' = turn.articles
          /\ documents' = turn.documents
          /\ edges' = turn.edges
          /\ counters' = turn.counters
          /\ r_report' = turn.report
          /\ r_stats' = [total |-> r_stats.total + 1,
                         fixed |-> r_stats.fixed + turn.fixed,
                         skipped |-> r_stats.skipped + turn.skipped]
    /\ r_groups' = Tail(r_groups)
    /\ UNCHANGED <<pdfs, jsonl, r_pc, r_commit, loaded, settled, harnessVars>>

\* the loop is over: the summary is printed and the process ends
ReconcileEnd ==
    /\ r_pc = "running"
    /\ r_groups = <<>>
    /\ r_pc' = "idle"
    /\ settled' = (r_commit \/ settled)
    /\ r_stats' = ZeroStats
    /\ r_report' = NoReport
    /\ counters' = ZeroCounters
    /\ r_commit' = FALSE
    /\ UNCHANGED <<pdfs, jsonl, articles, documents, edges, r_groups, loaded,
                   harnessVars>>

\* the process is killed between two turns of the loop
ReconcileKill ==
    /\ r_pc = "running"
    /\ r_groups # <<>>
    /\ r_pc' = "idle"
    /\ r_groups' = <<>>
    /\ r_stats' = ZeroStats
    /\ r_report' = NoReport
    /\ counters' = ZeroCounters
    /\ r_commit' = FALSE
    /\ UNCHANGED <<pdfs, jsonl, articles, documents, edges, loaded, settled,
                   harnessVars>>

Next ==
    \/ \E f \in PdfPaths, c \in PdfContents : EditPdf(f, c)
    \/ \E f \in PdfPaths : Extract(f)
    \/ Load
    \/ SetPdfPath
    \/ FixSuperscripts(tail_max_default)
    \/ \E commit \in BOOLEAN : ReconcileStart(commit)
    \/ ReconcileGroup
    \/ ReconcileEnd
    \/ ReconcileKill

Init == StoreInit

Spec == Init /\ [][Next]_vars

(***************************************************************************)
(* The reconciler on a store that earlier ingestions filled: each          *)
(* ingestion is pdf2articles.py, neo4j_loader.py and neo4j_set_pdf_path.py *)
(* run for one file.                                                       *)
(***************************************************************************)
MaxIngests == 2

\* a first page that shows the document id and nothing else
IdOnlyPage ==
    [readable |-> TRUE, id |-> "0.747.205", title |-> TitreInconnu,
     headings |-> << <<"7", "0", "6", "4">> >>]

RecContents == PdfContents \cup {IdOnlyPage}

EmptyStore == [articles |-> <<>>, documents |-> [d \in {} |-> None], edges |-> {}]

with_pdf_paths(st, recs) == [st EXCEPT !.articles = set_pdf_path_main(st.articles, recs)]

ingest_records(st, recs) == with_pdf_paths(loader_main(st, recs), recs)

\* the three scripts run for the file f holding the content c
ingest(st, f, c) == ingest_records(st, emitted_records(f, c))

RECURSIVE ingest_all(_, _)
ingest_all(st, history) ==
    IF Len(history) = 0 THEN st
    ELSE ingest(ingest_all(st, SubSeq(history, 1, Len(history) - 1)),
                history[Len(history)][1], history[Len(history)][2])

Ingestions == PdfPaths \X {c \in RecContents : c.readable}

RecInit ==
    /\ ServerIdle
    /\ \E n \in 0..MaxIngests : \E history \in [1..n -> Ingestions] :
          /\ articles = ingest_all(EmptyStore, history).articles
          /\ documents = ingest_all(EmptyStore, history).documents
          /\ edges = ingest_all(EmptyStore, history).edges
    /\ pdfs \in [PdfPaths -> RecContents]
    /\ jsonl = <<>>
    /\ r_pc = "idle"
    /\ r_commit = FALSE
    /\ r_groups = <<>>
    /\ r_stats = ZeroStats
    /\ r_report = NoReport
    /\ counters = ZeroCounters
    /\ loaded = FALSE
    /\ settled = FALSE
    /\ NormIdle
    /\ SegIdle
    /\ PageIdle
    /\ TitleIdle
    /\ DocIdIdle

\* session.run(CYPHER_UPDATE_GROUP) raises: the transaction is rolled back and the
\* exception, which main does not catch, ends the process
ReconcileWriteFails ==
    /\ r_pc = "running"
    /\ r_groups # <<>>
    /\ r_commit
    /\ reconciler_target(Head(r_groups), pdfs[Head(r_groups).pdf_path]).new_doc_id # Null
    /\ r_pc' = "idle"
    /\ r_groups' = <<>>
    /\ r_stats' = ZeroStats
    /\ r_report' = NoReport
    /\ counters' = ZeroCounters
    /\ r_commit' = FALSE
    /\ UNCHANGED <<pdfs, jsonl, articles, documents, edges, loaded, settled,
                   harnessVars>>

RecNext ==
    \/ \E f \in PdfPaths, c \in RecContents : EditPdf(f, c)
    \/ FixSuperscripts(tail_max_default)
    \/ \E commit \in BOOLEAN : ReconcileStart(commit)
    \/ ReconcileGroup
    \/ ReconcileWriteFails
    \/ ReconcileEnd

SpecRec == RecInit /\ [][RecNext]_vars

(***************************************************************************)
(* The ingestion scripts on their own: pdf2articles.py, neo4j_loader.py,   *)
(* neo4j_article_text_loader.py, neo4j_set_pdf_path.py, with normalizer    *)
(* passes in between.                                                      *)
(***************************************************************************)
\* a file that repeats a heading, and one that prints the document id and holds the
\* heading of another file on a later page
Repeated ==
    [readable |-> TRUE, id |-> Null, title |-> Loi,
     headings |-> << <<"7", "0", "6">>, <<"7", "0", "6">> >>]

LaterPage ==
    [readable |-> TRUE, id |-> "0.747.205", title |-> Loi,
     headings |-> << <<"7", "0", "6">>, <<"7", "0", "6", "4">> >>]

\* the files stay as they are while the scripts run
IngestContents == {c \in PdfContents : c.readable /\ c.id # Null} \cup {Repeated, LaterPage}

IngestInit ==
    /\ ServerIdle
    /\ pdfs \in [PdfPaths -> IngestContents]
    /\ jsonl = <<>>
    /\ articles = <<>>
    /\ documents = [d \in {} |-> None]
    /\ edges = {}
    /\ r_pc = "idle"
    /\ r_commit = FALSE
    /\ r_groups = <<>>
    /\ r_stats = ZeroStats
    /\ r_report = NoReport
    /\ counters = ZeroCounters
    /\ loaded = FALSE
    /\ settled = FALSE
    /\ NormIdle
    /\ SegIdle
    /\ PageIdle
    /\ TitleIdle
    /\ DocIdIdle

\* neo4j_article_text_loader.py --articles out/articles.jsonl
LoadText ==
    /\ r_pc = "idle"
    /\ jsonl # <<>>
    /\ LET st == text_loader_main(Store, jsonl)
       IN /\ Len(st.articles) <= MaxArticles
          /\ articles' = st.articles
    /\ settled' = FALSE
    /\ UNCHANGED <<pdfs, jsonl, documents, edges, r_pc, r_commit, r_groups, r_stats,
                   r_report, counters, loaded, harnessVars>>

IngestNext ==
    \/ \E f \in PdfPaths : Extract(f)
    \/ Load
    \/ LoadText
    \/ SetPdfPath
    \/ FixSuperscripts(tail_max_default)

SpecIngest == IngestInit /\ [][IngestNext]_vars

(***************************************************************************)
(* Normalizer passes over a store that holds the Articles of two ingested  *)
(* files, one heading each; a heading number is \d+[a-zA-Z]?.  The second  *)
(* file is the same in every run.                                          *)
(***************************************************************************)
MaxHeadingDigits == 5

PassHeadings ==
    {d \o l : d \in SeqsUpTo({"0", "7"}, MaxHeadingDigits) \ {<<>>},
              l \in {<<>>, <<"a">>, <<"V">>}}

PassContents ==
    {[readable |-> TRUE, id |-> Null, title |-> Loi, headings |-> <<h>>] : h \in PassHeadings}

PassInit ==
    /\ ServerIdle
    /\ pdfs \in [PdfPaths -> PassContents \cup {IdOnlyPage}]
    /\ pdfs["a.pdf"] \in PassContents
    /\ pdfs["b.pdf"] = IdOnlyPage
    /\ articles = ingest(ingest(EmptyStore, "a.pdf", pdfs["a.pdf"]), "b.pdf", pdfs["b.pdf"]).articles
    /\ documents = ingest(ingest(EmptyStore, "a.pdf", pdfs["a.pdf"]), "b.pdf", pdfs["b.pdf"]).documents
    /\ edges = ingest(ingest(EmptyStore, "a.pdf", pdfs["a.pdf"]), "b.pdf", pdfs["b.pdf"]).edges
    /\ jsonl = <<>>
    /\ r_pc = "idle"
    /\ r_commit = FALSE
    /\ r_groups = <<>>
    /\ r_stats = ZeroStats
    /\ r_report = NoReport
    /\ counters = ZeroCounters
    /\ loaded = FALSE
    /\ settled = FALSE
    /\ NormIdle
    /\ SegIdle
    /\ PageIdle
    /\ TitleIdle
    /\ DocIdIdle

PassNext == \E tail_max \in 1..MaxTailMax : FixSuperscripts(tail_max)

SpecPass == PassInit /\ [][PassNext]_vars

(***************************************************************************)
(* chat_app.py: the shared _pdf_server and the calls of respond that start *)
(* it.  Each browser session runs one call of respond at a time; calls of  *)
(* different sessions run in different threads of the web server, and      *)
(* start takes no lock, so their statements interleave.                    *)
(***************************************************************************)
Sessions == {"s1", "s2"}

\* what the user may enter in the PDF root and port fields
PdfRoots == {"pdfs", "docs"}

PdfPorts == {7863, 7864}

DefaultHost == "127.0.0.1"

\* _PDFServer.__init__; server and thread are 0 for None, else the number of the object
PDFServer_init == [server |-> 0, thread |-> 0, root |-> "", host |-> DefaultHost, port |-> 7863]

\* the value of info() when it returns None
InfoNone == [set |-> FALSE, root |-> "", host |-> "", port |-> 0]

\* _PDFServer.info
info(self) ==
    IF self.server = 0 THEN InfoNone
    ELSE [set |-> TRUE, root |-> self.root, host |-> self.host, port |-> self.port]

\* the call of respond of a session that is not in start
NoCall == [pc |-> "idle", root |-> "", port |-> 0, httpd |-> 0, t |-> 0]

\* gr.State of a new session
NewSessionState == [pdf_server_started |-> FALSE, pdf_server_info |-> InfoNone]

ServerInit ==
    /\ srv = PDFServer_init
    /\ srv_servers = <<>>
    /\ srv_threads = 0
    /\ srv_call = [c \in Sessions |-> NoCall]
    /\ srv_state = [c \in Sessions |-> NewSessionState]
    /\ srv_first = InfoNone
    /\ NormIdle
    /\ SegIdle
    /\ PageIdle
    /\ TitleIdle
    /\ DocIdIdle
    /\ StoreIdle

\* respond with the PDF server option on: "if pdf_http_opt and not st.get(...)" holds
\* and _pdf_server.start(pdf_root_dir, port=int(pdf_http_port)) is entered
RespondCallsStart(c, root, port) ==
    /\ srv_call[c].pc = "idle"
    /\ ~srv_state[c].pdf_server_started
    /\ srv_call' = [srv_call EXCEPT ![c] = [NoCall EXCEPT !.pc = "check", !.root = root, !.port = port]]
    /\ UNCHANGED <<srv, srv_servers, srv_threads, srv_state, srv_first,
                   normVars, segVars, pageVars, firstPageVars, storeVars>>

\* start: "if self.server: return"
StartCheck(c) ==
    /\ srv_call[c].pc = "check"
    /\ srv_call' = [srv_call EXCEPT ![c].pc = IF srv.server # 0 THEN "returned" ELSE "bind"]
    /\ UNCHANGED <<srv, srv_servers, srv_threads, srv_state, srv_first,
                   normVars, segVars, pageVars, firstPageVars, storeVars>>

\* the address is bound by a server created earlier
AddressInUse(host, port) ==
    \E k \in 1..Len(srv_servers) : srv_servers[k].host = host /\ srv_servers[k].port = port

\* start: httpd = socketserver.TCPServer((host, int(port)), handler) binds the address
StartBind(c) ==
    /\ srv_call[c].pc = "bind"
    /\ ~AddressInUse(DefaultHost, srv_call[c].port)
    /\ srv_servers' = Append(srv_servers,
                             [root |-> srv_call[c].root, host |-> DefaultHost,
                              port |-> srv_call[c].port])
    /\ srv_call' = [srv_call EXCEPT ![c].pc = "thread", ![c].httpd = Len(srv_servers) + 1]
    /\ UNCHANGED <<srv, srv_threads, srv_state, srv_first,
                   normVars, segVars, pageVars, firstPageVars, storeVars>>

\* start: TCPServer raises OSError, the address being bound by a server created earlier
\* or by another process; respond catches it and resets the state of the session
StartBindRaises(c) ==
    /\ srv_call[c].pc = "bind"
    /\ srv_call' = [srv_call EXCEPT ![c] = NoCall]
    /\ srv_state' = [srv_state EXCEPT ![c] = NewSessionState]
    /\ UNCHANGED <<srv, srv_servers, srv_threads, srv_first,
                   normVars, segVars, pageVars, firstPageVars, storeVars>>

\* start: t = threading.Thread(...); t.start()
StartThread(c) ==
    /\ srv_call[c].pc = "thread"
    /\ srv_threads' = srv_threads + 1
    /\ srv_call' = [srv_call EXCEPT ![c].pc = "set_server", ![c].t = srv_threads + 1]
    /\ UNCHANGED <<srv, srv_servers, srv_state, srv_first,
                   normVars, segVars, pageVars, firstPageVars, storeVars>>

\* start: self.server = httpd
StartSetServer(c) ==
    /\ srv_call[c].pc = "set_server"
    /\ srv' = [srv EXCEPT !.server = srv_call[c].httpd]
    /\ srv_call' = [srv_call EXCEPT ![c].pc = "set_thread"]
    /\ UNCHANGED <<srv_servers, srv_threads, srv_state, srv_first,
                   normVars, segVars, pageVars, firstPageVars, storeVars>>

\* start: self.thread = t
StartSetThread(c) ==
    /\ srv_call[c].pc = "set_thread"
    /\ srv' = [srv EXCEPT !.thread = srv_call[c].t]
    /\ srv_call' = [srv_call EXCEPT ![c].pc = "set_root"]
    /\ UNCHANGED <<srv_servers, srv_threads, srv_state, srv_first,
                   normVars, segVars, pageVars, firstPageVars, storeVars>>

\* start: self.root = str(Path(root).resolve())
StartSetRoot(c) ==
    /\ srv_call[c].pc = "set_root"
    /\ srv' = [srv EXCEPT !.root = srv_call[c].root]
    /\ srv_call' = [srv_call EXCEPT ![c].pc = "set_host"]
    /\ UNCHANGED <<srv_servers, srv_threads, srv_state, srv_first,
                   normVars, segVars, pageVars, firstPageVars, storeVars>>

\* start: self.host = host
StartSetHost(c) ==
    /\ srv_call[c].pc = "set_host"
    /\ srv' = [srv EXCEPT !.host = DefaultHost]
    /\ srv_call' = [srv_call EXCEPT ![c].pc = "set_port"]
    /\ UNCHANGED <<srv_servers, srv_threads, srv_state, srv_first,
                   normVars, segVars, pageVars, firstPageVars, storeVars>>

\* start: self.port = int(port), and start returns
StartSetPort(c) ==
    /\ srv_call[c].pc = "set_port"
    /\ srv' = [srv EXCEPT !.port = srv_call[c].port]
    /\ srv_call' = [srv_call EXCEPT ![c].pc = "returned"]
    /\ srv_first' = IF srv_first = InfoNone
                    THEN [set |-> TRUE, root |-> srv_call[c].root, host |-> DefaultHost,
                          port |-> srv_call[c].port]
                    ELSE srv_first
    /\ UNCHANGED <<srv_servers, srv_threads, srv_state,
                   normVars, segVars, pageVars, firstPageVars, storeVars>>

\* respond after start: st["pdf_server_started"] = True; st["pdf_server_info"] = info()
RespondStoresInfo(c) ==
    /\ srv_call[c].pc = "returned"
    /\ srv_state' = [srv_state EXCEPT ![c] = [pdf_server_started |-> TRUE,
                                               pdf_server_info |-> info(srv)]]
    /\ srv_call' = [srv_call EXCEPT ![c] = NoCall]
    /\ UNCHANGED <<srv, srv_servers, srv_threads, srv_first,
                   normVars, segVars, pageVars, firstPageVars, storeVars>>

\* on_new: the session state is reset, the server stays
NewConversation(c) ==
    /\ srv_call[c].pc = "idle"
    /\ srv_state[c] # NewSessionState
    /\ srv_state' = [srv_state EXCEPT ![c] = NewSessionState]
    /\ UNCHANGED <<srv, srv_servers, srv_threads, srv_call, srv_first,
                   normVars, segVars, pageVars, firstPageVars, storeVars>>

ServerNext ==
    \E c \in Sessions :
        \/ \E root \in PdfRoots, port \in PdfPorts : RespondCallsStart(c, root, port)
        \/ StartCheck(c)
        \/ StartBind(c)
        \/ StartBindRaises(c)
        \/ StartThread(c)
        \/ StartSetServer(c)
        \/ StartSetThread(c)
        \/ StartSetRoot(c)
        \/ StartSetHost(c)
        \/ StartSetPort(c)
        \/ RespondStoresInfo(c)
        \/ NewConversation(c)

SpecServer == ServerInit /\ [][ServerNext]_vars

(***************************************************************************)
(* Claims about the store                                                  *)
(***************************************************************************)
KeyOf(a) == <<a.doc_id, a.article_number>>

\* C1: once the records of a file are loaded, whatever normalizer and reconciler
\* runs follow, loading the same records again creates no Article node and
\* leaves every Article with the key it had before the re-load.
C1_ReloadAddsNoArticle ==
    [][(loaded /\ Load) =>
          /\ Len(articles') = Len(articles)
          /\ \A i \in 1..Len(articles) : KeyOf(articles'[i]) = KeyOf(articles[i])]_vars

\* C2: in every reachable store no two distinct Article nodes have the same
\* (doc_id, article_number) pair.
C2_KeyUniqueness ==
    \A i, j \in 1..Len(articles) : i # j => KeyOf(articles[i]) # KeyOf(articles[j])

\* C3: a commit run of the reconciler that follows a completed commit run, with no
\* file changed and nothing written in between, mutates nothing: no node property
\* changes, no Document is created or deleted, no HAS_ARTICLE edge is deleted
\* or created.
C3_SecondCommitRunMutatesNothing ==
    [][(settled /\ r_pc = "running" /\ r_commit) =>
          /\ articles' = articles
          /\ documents' = documents
          /\ edges' = edges
          /\ counters' = ZeroCounters]_vars

FileArticles(pdf_path) == {i \in 1..Len(articles) : articles[i].pdf_path = pdf_path}

EdgesInto(es, i) == {e \in es : e[2] = i}

\* no Article of the file changes its doc_id or its edges in the step
FileUntouched(pdf_path) ==
    \A i \in FileArticles(pdf_path) :
        /\ articles'[i].doc_id = articles[i].doc_id
        /\ EdgesInto(edges', i) = EdgesInto(edges, i)

\* after the step every Article of the file has the doc_id d and exactly the edge
\* from the Document d
FileRewired(pdf_path, d) ==
    /\ d \in DOMAIN documents'
    /\ \A i \in FileArticles(pdf_path) :
        /\ articles'[i].doc_id = d
        /\ articles'[i].pdf_path = pdf_path
        /\ EdgesInto(edges', i) = {<<d, i>>}

\* the doc_id a run recomputes for the file it is about to process
RecomputedDocId(pdf_path) ==
    IF r_groups # <<>> /\ Head(r_groups).pdf_path = pdf_path
    THEN reconciler_target(Head(r_groups), pdfs[pdf_path]).new_doc_id
    ELSE Null

\* C4: every step of a commit run, the one that ends or kills it included, leaves
\* the Articles of each file together: either none of them changes its doc_id and
\* edges, or all of them have the recomputed doc_id and the single edge from the
\* target Document.
C4_FileNeverSplit ==
    [][(r_pc = "running" /\ r_commit) =>
          \A f \in PdfPaths :
              FileUntouched(f) \/ FileRewired(f, RecomputedDocId(f))]_vars

\* a commit run has just moved the two Articles of a file to a Document it created
C4_Witness ==
    /\ r_pc = "running"
    /\ r_commit
    /\ counters.relationships_created >= 2
    /\ counters.nodes_created = 1
    /\ \E f \in PdfPaths :
          /\ Cardinality(FileArticles(f)) >= 2
          /\ \E d \in DOMAIN documents :
                \A i \in FileArticles(f) :
                    articles[i].doc_id = d /\ EdgesInto(edges, i) = {<<d, i>>}

(***************************************************************************)
(* Claims about the normalizer (checked under SpecNorm).                   *)
(***************************************************************************)

\* C5 (as stated): normalizing the number returned by normalize_article_number(x)
\* returns the same (number, footnote) pair as normalize_article_number(x).
C5_SamePairAgain == n_pc = "twice" => n_res2 = n_res

\* C5 (amended): normalizing the number returned by normalize_article_number(x)
\* returns that same number, with no footnote.
C5_NumberIsFixedPoint == n_pc = "twice" => n_res2 = <<n_res[1], None>>

C5_Witness ==
    /\ n_pc = "twice"
    /\ n_res[1] # n_raw
    /\ n_res[2] # None
    /\ n_res2 = <<n_res[1], None>>

\* the footnote the claims expect for a trailing digit run
FootnoteOf(tail) == IF tail = <<>> THEN None ELSE translate_sup(tail)

\* C6: with tail_max = 2, an Art prefix followed directly by four digits d1 d2 d3 d4
\* normalizes to number "Art. d1d2" with footnote "d3d4".
C6_FusedArabicTail ==
    (n_pc # "in" /\ n_tail_max = 2 /\ n_form.kind = "digits") =>
        n_res = << tidy_prefix \o <<" ">> \o Take(n_form.digits, 2), Drop(n_form.digits, 2) >>

\* C7: with tail_max = 2, any prefix casing and any whitespace between the
\* parts, digits{1,3} + one letter + optional 1-2 digits gives "Art. {int}{lower letter}"
\* and a valid roman numeral + optional 1-2 digits gives "Art. {ROMAN}", the digit run
\* being the footnote.
C7_LetterAndRomanCases ==
    (n_pc # "in" /\ n_tail_max = 2) =>
        /\ n_form.kind = "arabic" =>
              n_res = << tidy_prefix \o <<" ">> \o IntStr(n_form.digits) \o <<lower(n_form.letter)>>,
                         FootnoteOf(n_form.tail) >>
        /\ n_form.kind = "roman" =>
              n_res = << tidy_prefix \o <<" ">> \o n_form.roman, FootnoteOf(n_form.tail) >>

(***************************************************************************)
(* Claims about the segmenter and process_pdf (checked under SpecSeg).     *)
(***************************************************************************)
\* the concatenation of the spans of segs, in order
RECURSIVE ConcatSpans(_, _)
ConcatSpans(text, segs) ==
    IF segs = <<>> THEN <<>>
    ELSE Slice(text, Head(segs).start, Head(segs).end) \o ConcatSpans(text, Tail(segs))

\* the spans of segs cover [from, Len(text)) of text: no gap, no overlap
CoversFrom(text, segs, from) ==
    /\ segs[1].start = from
    /\ \A k \in 1..Len(segs) : segs[k].start <= segs[k].end
    /\ \A k \in 1..(Len(segs) - 1) : segs[k].end = segs[k + 1].start
    /\ segs[Len(segs)].end = Len(text)
    /\ ConcatSpans(text, segs) = Slice(text, from, Len(text))

\* the offsets at which a heading matches
HeadingStarts(text) == {p \in 0..Len(text) : heading_at(text, p).ok}

\* C8 (as stated): when the text contains a heading, the spans of find_articles_segments
\* cover the full text exactly (also before the first heading), without gap or overlap,
\* and their concatenation is the full text.
C8_SpansPartitionFullText ==
    (s_pc = "segmented" /\ HeadingStarts(FullText(s_pages)) # {}) =>
        /\ s_segments # <<>>
        /\ CoversFrom(FullText(s_pages), s_segments, 0)

\* C8 (amended): when the text contains a heading, the spans cover the text from the
\* start of the first heading to the end exactly, without gap or overlap, and their
\* concatenation is that part of the text.
C8_SpansPartitionFromFirstHeading ==
    (s_pc = "segmented" /\ HeadingStarts(FullText(s_pages)) # {}) =>
        /\ s_segments # <<>>
        /\ HeadingStarts(FullText(s_pages)) \cap 0..(s_segments[1].start - 1) = {}
        /\ CoversFrom(FullText(s_pages), s_segments, s_segments[1].start)

C8_Witness ==
    /\ s_pc = "segmented"
    /\ Len(s_segments) = 2
    /\ s_segments[1].start > 0
    /\ s_segments[1].end < Len(FullText(s_pages))
    /\ CoversFrom(FullText(s_pages), s_segments, s_segments[1].start)

\* C9: without any heading process_pdf emits exactly one record, numbered "Art. 1",
\* whose span is the whole text; with a heading it adds no synthetic article.
C9_HeadinglessFallback ==
    s_pc = "emitted" =>
        LET text == FullText(s_pages)
        IN /\ HeadingStarts(text) = {} =>
                /\ Len(s_records) = 1
                /\ s_records[1].article_number = <<"A", "r", "t", ".", " ", "1">>
                /\ s_records[1].start = 0
                /\ s_records[1].end = Len(text)
           /\ HeadingStarts(text) # {} =>
                \A k \in 1..Len(s_records) : heading_at(text, s_records[k].start).ok

C9_Witness ==
    /\ s_pc = "emitted"
    /\ Len(s_pages) = 2
    /\ s_pages[1] # <<>>
    /\ HeadingStarts(FullText(s_pages)) = {}
    /\ Len(s_records) = 1
    /\ s_records[1].end = Len(FullText(s_pages))

(***************************************************************************)
(* Claims about span_to_page_range (checked under SpecPage).               *)
(***************************************************************************)
\* C10: for every offset list and every 0 <= start <= end (end = start, a start on a
\* page boundary and the empty list included) the range has page_start <= page_end and
\* both lie in [1, page_count].
C10_PageRangeInBounds ==
    p_pc = "out" =>
        /\ p_range[1] <= p_range[2]
        /\ 1 <= p_range[1]
        /\ p_range[2] <= Len(p_offsets)

\* the 1-based number of the last page that starts at or before the offset pos
HighestPage(pos, page_offsets) ==
    CHOOSE i \in 1..Len(page_offsets) :
        /\ page_offsets[i] <= pos
        /\ \A j \in (i + 1)..Len(page_offsets) : page_offsets[j] > pos

\* C26: for non-decreasing page offsets that begin at 0, page_start is the last page
\* that starts at or before start and page_end the last page that starts at or before
\* max(end - 1, 0); a span with end = start gets a range as well.
C26_OffsetToPageRule ==
    (p_pc = "out" /\ p_offsets # <<>>) =>
        p_range = << HighestPage(p_span[1], p_offsets),
                     HighestPage(IF p_span[2] - 1 > 0 THEN p_span[2] - 1 ELSE 0, p_offsets) >>

\* an empty span that starts where the second page starts has been mapped: page_start
\* is past page_end
C26_Witness ==
    /\ p_pc = "out"
    /\ Len(p_offsets) >= 2
    /\ p_span[1] = p_span[2]
    /\ p_span[1] = p_offsets[2]
    /\ p_range[1] > p_range[2]

(***************************************************************************)
(* Claims about the title detector (checked under SpecTitle).              *)
(***************************************************************************)
\* the offset of text up to which the accent-folded text has f characters, combining
\* characters after it excluded (low) or included (high)
OrigOffsetLow(text, f) ==
    CHOOSE i \in 0..Len(text) :
        /\ Len(norm(Take(text, i))) >= f
        /\ \A j \in 0..(i - 1) : Len(norm(Take(text, j))) < f

OrigOffsetHigh(text, f) ==
    CHOOSE i \in 0..Len(text) :
        /\ Len(norm(Take(text, i))) <= f
        /\ \A j \in (i + 1)..Len(text) : Len(norm(Take(text, j))) > f

UpperText == top_text_of(t_page)

UpperStart == start_pat_search(norm(UpperText))

UpperEnd == end_pat_search(norm(UpperText), IF UpperStart.ok THEN UpperStart.end ELSE 0)

\* the characters of the upper-half text strictly between the two markers
UpperBetween ==
    SubSeq(UpperText, OrigOffsetLow(UpperText, UpperStart.end) + 1,
           OrigOffsetHigh(UpperText, UpperEnd.start))

BothMarkers == UpperStart.ok /\ UpperEnd.ok /\ UpperEnd.start > UpperStart.end

\* C11: when the upper-half text of page 1 holds the start marker and after it the end
\* marker, with a text between them that is not empty once cleaned, the detected title
\* is that text between the markers, cleaned.
C11_TitleIsTextBetweenMarkers ==
    (t_pc = "done" /\ BothMarkers /\ clean_segment(UpperBetween) # <<>>)
        => t_title = clean_segment(UpperBetween)

\* the cleaned segment the marker policy cuts out of the upper-half text and out of the
\* raw page text; empty when the markers delimit none
UpperSegment ==
    IF UpperText = <<>> THEN <<>> ELSE clean_segment(segment_or_empty(marker_segment(UpperText)))

RawSegment == clean_segment(segment_or_empty(marker_segment(page_get_text(t_page.lines))))

\* the non-empty lines of the page that are neither a bare document id nor begin with
\* the start marker
QualifyingLines ==
    {i \in 1..Len(t_page.lines) :
        /\ Strip(t_page.lines[i]) # <<>>
        /\ ~DOC_ID_LINE(Strip(t_page.lines[i]))
        /\ ~WordAt(Strip(t_page.lines[i]), 0, TexteOriginal)}

FirstQualifyingLine ==
    Strip(t_page.lines[CHOOSE i \in QualifyingLines : \A j \in QualifyingLines : i <= j])

IsDottedNumeral(s) ==
    \E a \in 1..3, b \in 1..3 :
        /\ Len(s) - (a + b + 2) \in 1..3
        /\ AllIn(SubSeq(s, 1, a), Digits) /\ s[a + 1] = "."
        /\ AllIn(SubSeq(s, a + 2, a + b + 1), Digits) /\ s[a + b + 2] = "."
        /\ AllIn(SubSeq(s, a + b + 3, Len(s)), Digits)

PageOneText == d_text.first_page_text

\* the substrings PageOneText[p+1..e] that are dotted numerals
DottedNumerals ==
    {pe \in (0..Len(PageOneText)) \X (0..Len(PageOneText)) :
        pe[1] < pe[2] /\ IsDottedNumeral(SubSeq(PageOneText, pe[1] + 1, pe[2]))}

\* those with no letter, digit or underscore next to them
DelimitedNumerals ==
    {pe \in DottedNumerals :
        /\ pe[1] = 0 \/ PageOneText[pe[1]] \notin WordChars
        /\ pe[2] = Len(PageOneText) \/ PageOneText[pe[2] + 1] \notin WordChars}

Leftmost(S) == {pe \in S : \A qe \in S : pe[1] <= qe[1]}

NextGroup == Head(r_groups)

\* what the turn for the next group does when --commit is given
CommitTurn == reconcile_turn(Store, NextGroup, pdfs[NextGroup.pdf_path], TRUE)

StoreUnchanged == articles' = articles /\ documents' = documents /\ edges' = edges

\* C14: a turn of a dry run leaves the store as it is, and the (doc_id, title) it prints
\* for the file is the pair a commit turn prints and writes: the title of the target
\* Document and the doc_id of every Article of the file.
C14_DryRunReportsCommitTarget ==
    [][(ReconcileGroup /\ ~r_commit) =>
          /\ StoreUnchanged
          /\ r_report'.new_doc_id = CommitTurn.report.new_doc_id
          /\ r_report'.doc_title = CommitTurn.report.doc_title
          /\ (r_report'.kind = "skip") = (CommitTurn.report.kind = "skip")
          /\ r_report'.kind # "skip" =>
                /\ CommitTurn.documents[r_report'.new_doc_id] = r_report'.doc_title
                /\ \A i \in 1..Len(CommitTurn.articles) :
                      CommitTurn.articles[i].pdf_path = r_report'.pdf_path
                          => CommitTurn.articles[i].doc_id = r_report'.new_doc_id]_vars

\* a dry run has printed, for a file, a doc_id that an Article of the file does not
\* carry yet
C14_Witness ==
    /\ r_pc = "running"
    /\ r_report.kind = "dry-run"
    /\ \E i \in 1..Len(articles) :
          /\ articles[i].pdf_path = r_report.pdf_path
          /\ articles[i].doc_id # r_report.new_doc_id

\* C15: the turn for a file that cannot be read prints the skip, counts it as skipped,
\* changes nothing in the store, and the run goes on with the groups that remain.
C15_UnreadableFileSkipped ==
    [][(ReconcileGroup /\ ~pdfs[NextGroup.pdf_path].readable) =>
          /\ StoreUnchanged
          /\ r_report'.kind = "skip" /\ r_report'.pdf_path = NextGroup.pdf_path
          /\ r_stats'.skipped = r_stats.skipped + 1
          /\ r_stats'.fixed = r_stats.fixed
          /\ r_pc' = "running"
          /\ r_groups' = Tail(r_groups)]_vars

\* a commit run has skipped a file and then written the next one
C15_Witness ==
    /\ r_pc = "running"
    /\ r_commit
    /\ r_stats.skipped >= 1
    /\ r_report.kind = "ok"

\* how many of the listed Articles carry the doc_id d
CountOf(arts, d) == Cardinality({k \in 1..Len(arts) : arts[k].doc_id = d})

\* the doc_ids that the most Articles of the listing carry
MostFrequentIds(arts) ==
    {arts[k].doc_id : k \in {j \in 1..Len(arts) :
        /\ arts[j].doc_id # Null
        /\ \A i \in 1..Len(arts) :
              arts[i].doc_id # Null => CountOf(arts, arts[i].doc_id) <= CountOf(arts, arts[j].doc_id)}}

\* C16: for a readable file without document id on page 1, the target doc_id is a most
\* frequent doc_id among the file's Articles, and the file stem when they carry none.
C16_FallbackIsMostFrequentId ==
    [][(/\ ReconcileGroup
        /\ pdfs[NextGroup.pdf_path].readable
        /\ pdfs[NextGroup.pdf_path].id = Null) =>
          IF MostFrequentIds(NextGroup.arts) = {}
          THEN r_report'.new_doc_id = Stem(NextGroup.pdf_path)
          ELSE r_report'.new_doc_id \in MostFrequentIds(NextGroup.arts)]_vars

\* C17: a turn of the reconciler never replaces the title of a Document that is not the
\* placeholder by the placeholder 'Titre inconnu'.
C17_NoTitleRegression ==
    [][ReconcileGroup =>
          \A d \in DOMAIN documents :
              (documents[d] \notin {None, TitreInconnu} /\ d \in DOMAIN documents')
                  => documents'[d] # TitreInconnu]_vars

\* C18: when the write for a file fails, nothing of it stays in the store and the run
\* goes on with the groups that remain.
C18_WriteFailureContained ==
    [][ReconcileWriteFails =>
          /\ StoreUnchanged
          /\ r_pc' = "running"
          /\ r_groups' = Tail(r_groups)]_vars

\* the target the reconciler settles on for the listed group g
TargetId(g) == reconciler_target(g, pdfs[g.pdf_path]).new_doc_id

\* the files of the store whose turn in this run is over
ProcessedGroups ==
    {g \in {CYPHER_LIST_PDFS(articles)[k] : k \in 1..Len(CYPHER_LIST_PDFS(articles))} :
        \A k \in 1..Len(r_groups) : r_groups[k].pdf_path # g.pdf_path}

\* the next file recomputes to the doc_id an earlier file of this run recomputed to
IdentityConflict ==
    /\ TargetId(NextGroup) # Null
    /\ \E g \in ProcessedGroups : TargetId(g) = TargetId(NextGroup)

\* C19: in a commit run, the turn for a file whose recomputed doc_id is the one an earlier
\* file of the run recomputed to reports the conflict and writes nothing, and the run
\* goes on.
C19_IdentityConflictSurfaced ==
    [][(ReconcileGroup /\ r_commit /\ IdentityConflict) =>
          /\ StoreUnchanged
          /\ r_report'.kind \notin {"ok", "dry-run"}
          /\ r_pc' = "running"]_vars

\* the store after a complete normalizer pass
Normalized(st) ==
    [st EXCEPT !.articles = fix_superscripts_main(st.articles, tail_max_default)]

\* the store after a complete commit run of the reconciler
Reconciled(st) == reconciler_main(st, CYPHER_LIST_PDFS(st.articles), pdfs, TRUE)

\* C20: from any store at rest, the normalizer pass followed by the reconciler commit run
\* ends in the store that the reconciler commit run followed by the normalizer pass ends
\* in.
C20_OrderIndependence ==
    r_pc = "idle" => Reconciled(Normalized(Store)) = Normalized(Reconciled(Store))

(***************************************************************************)
(* Claims about the stored titles (checked under Spec).                    *)
(***************************************************************************)
IsPrefixOf(p, s) == Len(p) <= Len(s) /\ Take(s, Len(p)) = p

\* the title of the Article a is derived from its article_number and from doc_title,
\* the title of the Document it hangs from (None while the Document carries no title)
TitleDerivedFrom(a, doc_title) ==
    IF doc_title = None
    THEN IsPrefixOf(a.article_number \o <<",", " ">>, a.title)
    ELSE a.title = ArticleTitle(a.article_number, doc_title)

\* C21: in every store reached by ingestions, normalizer passes and reconciler runs,
\* the title of each Article is its current article_number, then ', ', then the title
\* of its Document; no Article keeps a title that starts with a number it had before.
C21_DerivedArticleTitle ==
    \A i \in 1..Len(articles) :
        \A e \in EdgesInto(edges, i) : TitleDerivedFrom(articles[i], documents[e[1]])

(***************************************************************************)
(* Claims about the normalizer under any --tail_max (checked under         *)
(* SpecNormAny).                                                           *)
(***************************************************************************)
IsNormalizerResult(res) == Len(res) = 2 /\ res # re_error

\* the remainder after the Art prefix matches none of the three patterns
Unparseable(raw, tail_max) ==
    LET rest == match_art(translate_sup(CollapseWs(Strip(raw))))
    IN /\ raw # <<>>
       /\ rest # None
       /\ ~m_ar(RemoveSpaces(rest), tail_max).ok
       /\ ~(m_ro(RemoveSpaces(rest), tail_max).ok /\ is_roman(m_ro(RemoveSpaces(rest), tail_max).roman))
       /\ token_case(tidy_prefix, findall_tokens(translate_sup(rest)), tail_max) = None

RestOf(raw) == match_art(translate_sup(CollapseWs(Strip(raw))))

\* C22: for every raw string and every tail_max the option accepts, the normalizer
\* returns a (number, footnote) pair and does not raise; when the remainder matches
\* none of the patterns the pair is ('Art. ' + remainder, None).
C22_NormalizerIsTotal ==
    n_pc # "in" =>
        /\ IsNormalizerResult(n_res)
        /\ Unparseable(n_raw, n_tail_max) =>
              n_res = <<tidy_prefix \o <<" ">> \o Strip(RestOf(n_raw)), None>>

(***************************************************************************)
(* Claims about ingestion (checked under SpecIngest).                      *)
(***************************************************************************)
\* the Articles of the store that carry the key of the record rec
WithKeyOf(arts, rec) == ArticlesWithKey(arts, rec.doc_id, rec.article_number)

\* the last record of the file that carries the key of its k-th record
LastWithKey(k) ==
    CHOOSE j \in k..Len(jsonl) :
        /\ KeyOf(jsonl[j]) = KeyOf(jsonl[k])
        /\ \A m \in (j + 1)..Len(jsonl) : KeyOf(jsonl[m]) # KeyOf(jsonl[k])

\* the k-th record of the file finds its key in the store and the load overwrites the
\* pages of that Article, adding no node and no second edge
Overwritten(k) ==
    /\ WithKeyOf(articles', jsonl[k]) = WithKeyOf(articles, jsonl[k])
    /\ \A i \in WithKeyOf(articles, jsonl[k]) :
          /\ articles'[i].page_start = jsonl[LastWithKey(k)].page_start
          /\ articles'[i].page_end = jsonl[LastWithKey(k)].page_end
          /\ EdgesInto(edges', i) = {<<jsonl[k].doc_id, i>>}

\* C23: after a load of the records of a file, loading them again changes no Document,
\* no Article and no edge, for the article loader and for the text loader; a record whose
\* key is in the store before the load gets the pages of the record and no second node
\* or edge.
C23_UpsertIdempotent ==
    [][/\ Load =>
            /\ loader_main(Store', jsonl) = Store'
            /\ \A k \in 1..Len(jsonl) : WithKeyOf(articles, jsonl[k]) # {} => Overwritten(k)
       /\ LoadText => text_loader_main(Store', jsonl) = Store']_vars

\* a load has moved an Article that an earlier load of another file created on page 2
\* to page 1, and the text loader has run as well
C23_Witness ==
    /\ loaded
    /\ Len(jsonl) = 1
    /\ jsonl[1].page_start = 1
    /\ Len(articles) = 2
    /\ articles[1].doc_id = jsonl[1].doc_id
    /\ KeyOf(articles[2]) = KeyOf(jsonl[1])
    /\ articles[2].page_start = 1 /\ articles[2].page_end = 1
    /\ articles[2].text_full # None
    /\ EdgesInto(edges, 2) = {<<jsonl[1].doc_id, 2>>}

(***************************************************************************)
(* Claims about one commit of the reconciler (checked under SpecRec).      *)
(***************************************************************************)
\* a turn of a commit run that writes: the file of the next group is readable
CommitWrites == ReconcileGroup /\ r_commit /\ TargetId(NextGroup) # Null

\* the Articles that carry the pdf_path once the step is taken
FileArticlesAfter(pdf_path) == {i \in 1..Len(articles') : articles'[i].pdf_path = pdf_path}

\* C24: after the commit for a file, every Article with its pdf_path has the recomputed
\* doc_id, the title article_number + ', ' + title of the target Document, and exactly one
\* incoming edge, from the target Document; no edge from another Document is left.
C24_RewiredPostState ==
    [][CommitWrites =>
          /\ TargetId(NextGroup) \in DOMAIN documents'
          /\ \A i \in FileArticlesAfter(NextGroup.pdf_path) :
                /\ articles'[i].doc_id = TargetId(NextGroup)
                /\ articles'[i].title =
                       ArticleTitle(articles'[i].article_number, documents'[TargetId(NextGroup)])
                /\ EdgesInto(edges', i) = {<<TargetId(NextGroup), i>>}]_vars

\* a commit has moved the Articles of a file from the Document they hung from, which
\* is gone, to the target Document
C24_Witness ==
    /\ r_pc = "running"
    /\ r_report.kind = "ok"
    /\ counters.relationships_deleted >= 1
    /\ counters.nodes_deleted >= 1
    /\ FileArticles(r_report.pdf_path) # {}
    /\ \A i \in FileArticles(r_report.pdf_path) :
          /\ articles[i].doc_id = r_report.new_doc_id
          /\ articles[i].title = ArticleTitle(articles[i].article_number, r_report.doc_title)
          /\ EdgesInto(edges, i) = {<<r_report.new_doc_id, i>>}

\* the Documents of a store that no HAS_ARTICLE edge leaves
Orphans(docs, es) == {d \in DOMAIN docs : ~(\E e \in es : e[1] = d)}

\* C25: after the commit for a file the store holds no Document without an edge, the
\* target Document of the file excepted; the commit does not delete the target Document
\* and deletes no Document that still has an Article.
C25_OrphanCollection ==
    [][CommitWrites =>
          /\ Orphans(documents', edges') \subseteq {TargetId(NextGroup)}
          /\ TargetId(NextGroup) \in DOMAIN documents'
          /\ \A d \in DOMAIN documents :
                (\E e \in edges' : e[1] = d) => d \in DOMAIN documents']_vars

\* a commit has deleted the Document that the Articles of the file left, while a
\* Document with the Articles of another file is still there
C25_Witness ==
    /\ r_pc = "running"
    /\ r_report.kind = "ok"
    /\ counters.nodes_deleted >= 1
    /\ Orphans(documents, edges) = {}
    /\ \E d \in DOMAIN documents :
          /\ d # r_report.new_doc_id
          /\ \E e \in edges : e[1] = d

\* C30: a commit for a file creates and deletes no Article and changes no Article's
\* article_number, pdf_path, pages, footnote or text; an Article of another file keeps
\* its doc_id, its title and its incoming edges.
C30_ReconcilerFrame ==
    [][CommitWrites =>
          /\ Len(articles') = Len(articles)
          /\ \A i \in 1..Len(articles) :
                /\ articles'[i].article_number = articles[i].article_number
                /\ articles'[i].pdf_path = articles[i].pdf_path
                /\ articles'[i].page_start = articles[i].page_start
                /\ articles'[i].page_end = articles[i].page_end
                /\ articles'[i].article_footnote = articles[i].article_footnote
                /\ articles'[i].text_full = articles[i].text_full
                /\ articles[i].pdf_path # NextGroup.pdf_path =>
                      /\ articles'[i].doc_id = articles[i].doc_id
                      /\ articles'[i].title = articles[i].title
                      /\ EdgesInto(edges', i) = EdgesInto(edges, i)]_vars

\* a commit has re-wired the Article of one file while the store holds an Article of
\* another file with the same article_number, under another doc_id
C30_Witness ==
    /\ r_pc = "running"
    /\ r_report.kind = "ok"
    /\ counters.relationships_deleted >= 1
    /\ \E i, j \in 1..Len(articles) :
          /\ articles[i].pdf_path = r_report.pdf_path
          /\ articles[j].pdf_path \notin {r_report.pdf_path, Null}
          /\ articles[j].article_number = articles[i].article_number
          /\ articles[j].doc_id # r_report.new_doc_id
          /\ EdgesInto(edges, j) = {<<articles[j].doc_id, j>>}

(***************************************************************************)
(* Claims about the normalizer pass (checked under SpecPass).              *)
(***************************************************************************)
\* C27: after a complete pass that writes, every stored article_number that starts with
\* 'art' normalizes to itself with no footnote, so a second pass with the same tail_max
\* writes nothing, counts every row as unchanged and leaves the footnotes in place.
C27_PassReachesFixedPoint ==
    [][\A tail_max \in 1..MaxTailMax :
          FixSuperscripts(tail_max) =>
              /\ \A i \in fix_superscripts_rows(articles') :
                    normalize_article_number(articles'[i].article_number, tail_max)
                        = <<articles'[i].article_number, None>>
              /\ fix_superscripts_main(articles', tail_max) = articles'
              /\ fix_superscripts_counts(articles', tail_max)
                     = [fixed |-> 0, unchanged |-> Len(articles')]]_vars

\* a pass has renumbered both Articles and given them a footnote
C27_Witness ==
    /\ Len(articles) = 2
    /\ \A i \in 1..2 :
          /\ articles[i].article_footnote \notin {None, <<>>}
          /\ ~IsPrefixOf(articles[i].article_number \o <<",">>, articles[i].title)
          /\ fix_superscripts_counts(articles, tail_max_default).fixed = 0

HeadingOccurrences(text) == {SkipWs(text, p) : p \in HeadingStarts(text)}

\* C29: the segments of find_articles_segments have strictly increasing starts and
\* non-empty spans, each ends where the next one starts, the last one ends at
\* len(full_text), and there is one segment per heading occurrence.
C29_SegmentsOrderedContiguous ==
    s_pc = "segmented" =>
        /\ \A k \in 1..(Len(s_segments) - 1) :
              /\ s_segments[k].start < s_segments[k + 1].start
              /\ s_segments[k].end = s_segments[k + 1].start
        /\ \A k \in 1..Len(s_segments) : s_segments[k].start < s_segments[k].end
        /\ s_segments # <<>> => s_segments[Len(s_segments)].end = Len(FullText(s_pages))
        /\ Len(s_segments) = Cardinality(HeadingOccurrences(FullText(s_pages)))

\* two headings, the first after blank lines on a later page: more offsets match than
\* there are heading occurrences
C29_Witness ==
    /\ s_pc = "segmented"
    /\ Len(s_pages) >= 2
    /\ Len(s_segments) = 2
    /\ Cardinality(HeadingStarts(FullText(s_pages))) > 2
    /\ Cardinality(HeadingOccurrences(FullText(s_pages))) = 2
    /\ s_segments[1].end = s_segments[2].start
    /\ s_segments[2].end = Len(FullText(s_pages))

====
